---------------------------- MODULE Spec2Model ----------------------------
(***************************************************************************)
(* Model of the Go client for the Claude CLI (package claude):             *)
(*   - SubprocessTransport  (subprocess.go: Connect / readMessages /       *)
(*     Send / Close), and the mockTransport used as an injected Transport, *)
(*   - Client (client.go: Connect / readMessages (the pump) /              *)
(*     parseMessage / handleControlRequest / buildHookResponse /           *)
(*     sendControlResponse / Query / Interrupt / SetPermissionMode /       *)
(*     SetModel / Close),                                                  *)
(*   - the one-shot Query helper (query.go).                               *)
(* One client, one session: Connect is called on a client whose transport  *)
(* has not been started yet (the lifecycle documented on Transport).       *)
(***************************************************************************)
EXTENDS Integers, Sequences, FiniteSets, TLC

(* ------------------------------ bounds --------------------------------- *)
\* number of lines the peer (or the test feeding a mock) emits in one run:
\* in a hook session, a streaming session, an API session
MaxHookLines == 2
MaxStreamLines == 3
MaxApiLines == 1
\* number of API calls the application makes in one run
MaxOps == 3
\* capacity of the transport's message channel (100 in the source; the
\* model scales it down so that "channel full" happens within MaxLines)
MsgChanCap == 1
\* capacity of the client's outbound channel and of the one-shot relay's
\* channel (100 in the source, scaled down likewise)
OutChanCap == 2
\* capacity of the transport's error channel (10 in the source)
ErrChanCap == 1
\* capacity of the channel the one-shot Query returns (100 in the code)
QueryChanCap == 1
\* lines the peer writes in a one-shot query
MaxQueryLines == 3
\* lines the peer writes in a session of concurrent senders
MaxSendLines == 1
\* lines the peer writes in a session that races the initialize handshake
MaxHandshakeLines == 1

(* ------------------------------ data ----------------------------------- *)
HookEvents ==
    {"PreToolUse", "PostToolUse", "UserPromptSubmit", "Stop", "SubagentStop",
     "PreCompact"}

\* a line of the peer's stdout, abstracted to the fields the code looks at
NoLine == [type |-> "none", n |-> 0, subtype |-> "", hasReq |-> FALSE,
           cb |-> -1, event |-> "", hasData |-> FALSE]

\* a conversation frame {"type": t, ...}; n is its position in the peer's output
ConvLine(t, n) == [NoLine EXCEPT !.type = t, !.n = n]

\* {"type":"system","subtype":s,"data":{...}}
SystemLine(s, n) ==
    [NoLine EXCEPT !.type = "system", !.n = n, !.subtype = s, !.hasData = TRUE]

\* {"type":"system","subtype":s}   (no data object)
SystemNoDataLine(s, n) ==
    [NoLine EXCEPT !.type = "system", !.n = n, !.subtype = s]

\* {"type":"system","subtype":"init","data":{...}}
InitLine(n) == SystemLine("init", n)

\* {"type":"control_request","request_id":n,"request":{"subtype":s,
\*  "callback_id":"hook_<cb>","input":{"hook_event_name":e}}}
CtlLine(n, s, cb, e) ==
    [type |-> "control_request", n |-> n, subtype |-> s, hasReq |-> TRUE,
     cb |-> cb, event |-> e, hasData |-> FALSE]

\* {"type":"control_request","request_id":n}   (no nested request object)
CtlNoReqLine(n) == [NoLine EXCEPT !.type = "control_request", !.n = n]

\* a line longer than the scan buffer (maxScanTokenSize bytes with no newline)
LongLine(n) == [NoLine EXCEPT !.type = "toolong", !.n = n]

\* the line l written as the n-th line of the peer's output
Stamp(l, n) == [l EXCEPT !.n = n]

\* line shapes of a session that exercises hooks
HookLines ==
    {CtlLine(0, "hook_callback", 0, "PreToolUse"),
     CtlLine(0, "hook_callback", 0, "PostToolUse"),
     CtlLine(0, "hook_callback", 1, "PostToolUse"),
     CtlLine(0, "hook_callback", 9, "PreToolUse"),
     CtlLine(0, "can_use_tool", -1, ""),
     CtlNoReqLine(0),
     ConvLine("assistant", 0)}

\* line shapes of a session that streams conversation messages: two
\* conversation frames, a frame of an unknown type ("bogus"), a line that is
\* not a JSON object ("malformed"), an empty line, and the init frame
StreamLines ==
    {ConvLine("assistant", 0), ConvLine("result", 0), ConvLine("bogus", 0),
     ConvLine("malformed", 0), ConvLine("empty", 0), InitLine(0)}

\* line shapes of a session in which the application drives the API
ApiLines == {ConvLine("assistant", 0)}

\* what the peer answers to a one-shot query: conversation frames, results
QueryLines == {ConvLine("assistant", 0), ConvLine("result", 0)}

\* the last element of a non-empty sequence
Last(q) == q[Len(q)]

\* ---- channels: a Go buffered channel is a FIFO buffer plus a closed flag
NewChan == [isNil |-> FALSE, buf |-> <<>>, closed |-> FALSE]

\* the zero value of a channel field
NilChan == [isNil |-> TRUE, buf |-> <<>>, closed |-> FALSE]

ChanFull(ch, cap) == Len(ch.buf) >= cap

\* a send handed to a goroutine of its own, which may overtake earlier ones
ChanSendUnordered(ch, v) == [ch EXCEPT !.buf = <<v>> \o @]

\* ch <- v  (the caller has checked that there is room)
ChanSend(ch, v) == [ch EXCEPT !.buf = Append(@, v)]

\* an offer that makes room by discarding the oldest buffered value
ChanOfferEvictOldest(ch, v, cap) ==
    IF Len(ch.buf) >= cap
    THEN [ch EXCEPT !.buf = Append(Tail(@), v)]
    ELSE [ch EXCEPT !.buf = Append(@, v)]

\* select { case ch <- v: default: }   -- drop v when the buffer is full
ChanOffer(ch, v, cap) == IF ChanFull(ch, cap) THEN ch ELSE ChanSend(ch, v)

\* v := <-ch   (the caller has checked that the buffer is not empty)
ChanRecv(ch) == [ch EXCEPT !.buf = Tail(@)]

ChanClose(ch) == [ch EXCEPT !.closed = TRUE]

(* --------------------------- configuration ----------------------------- *)
\* config as NewClient leaves it before any option is applied
EmptyConfig ==
    [transport |-> "nil", closeErr |-> FALSE,
     hooks |-> [e \in HookEvents |-> <<>>],
     hookCallbacks |-> <<>>, nextCallbackID |-> 0]

\* a With<Event>Hook whose generateCallbackID does not advance the counter
WithHookSameID(c, event) ==
    LET id == c.nextCallbackID
    IN [c EXCEPT !.hookCallbacks = (id :> event) @@ @,
                 !.hooks[event] = Append(@, [callbackIDs |-> <<id>>]),
                 !.nextCallbackID = IF id = 0 THEN 1 ELSE id]

\* With<Event>Hook(matcher, hook): initHookMaps, generateCallbackID,
\* hookCallbacks[id] = hook, hooks[event] = append(hooks[event], matcher).
\* hookCallbacks maps the id hook_<k> (held as k) to the event whose hook
\* type the registered function has.
WithHook(c, event) ==
    LET id == c.nextCallbackID
    IN [c EXCEPT !.hookCallbacks = @ @@ (id :> event),
                 !.hooks[event] = Append(@, [callbackIDs |-> <<id>>]),
                 !.nextCallbackID = id + 1]

\* WithTransport(t) with t a mockTransport whose closeErr is set or not
WithTransport(c, closeErr) ==
    [c EXCEPT !.transport = "mock", !.closeErr = closeErr]

RECURSIVE ApplyHooks(_, _)
ApplyHooks(c, regs) ==
    IF regs = <<>> THEN c ELSE ApplyHooks(WithHook(c, Head(regs)), Tail(regs))

\* NewClient(opts...): the options applied in order to an empty config
NewClient(opt) ==
    LET c == ApplyHooks(EmptyConfig, opt.regs)
    IN IF opt.mock THEN WithTransport(c, opt.closeErr) ELSE c

\* len(c.cfg.hooks) > 0
HasHooks(c) == \E e \in HookEvents : c.hooks[e] # <<>>

(* ------------------------------ hooks ---------------------------------- *)
\* what a hook function may return: (*HookOutput, error)
NilOutput ==
    [isNil |-> TRUE, Decision |-> "", Reason |-> "", Continue |-> "nil",
     UpdatedInput |-> "nil", StopReason |-> "", SystemMessage |-> "",
     AdditionalContext |-> ""]

\* UpdatedInput is a map[string]any: "nil", a JSON-encodable map ("ok"), or
\* a map holding a value encoding/json rejects, such as NaN ("unsupported")
Output(d, r, c, u) ==
    [NilOutput EXCEPT !.isNil = FALSE, !.Decision = d, !.Reason = r,
                      !.Continue = c, !.UpdatedInput = u]

HookOutputs ==
    {NilOutput, Output("", "", "nil", "nil"), Output("", "why", "false", "nil"),
     Output("deny", "why", "nil", "nil"), Output("deny", "why", "false", "nil"),
     Output("allow", "", "nil", "ok"),
     Output("allow", "why", "nil", "unsupported")}

HookReturns == {[output |-> o, err |-> e] : o \in HookOutputs, e \in BOOLEAN}

NoHookSpecificOutput ==
    [present |-> FALSE, HookEventName |-> "", PermissionDecision |-> "",
     PermissionDecisionReason |-> "", UpdatedInput |-> "nil",
     AdditionalContext |-> ""]

\* &HookCallbackResponse{Continue: true}
ContinueResponse ==
    [Continue |-> TRUE, StopReason |-> "", SystemMessage |-> "",
     Reason |-> "", HookSpecificOutput |-> NoHookSpecificOutput]

\* buildHookResponse that looks at the output before the error
buildHookResponseOutputFirst(output, err, event) ==
    IF output.isNil
    THEN [Continue |-> TRUE, StopReason |-> "", SystemMessage |-> "",
          Reason |-> "",
          HookSpecificOutput |->
            [present |-> FALSE, HookEventName |-> "", PermissionDecision |-> "",
             PermissionDecisionReason |-> "", UpdatedInput |-> "nil",
             AdditionalContext |-> ""]]
    ELSE [Continue |-> IF output.Continue # "nil"
                       THEN output.Continue = "true" ELSE TRUE,
          StopReason |-> output.StopReason,
          SystemMessage |-> output.SystemMessage,
          Reason |-> output.Reason,
          HookSpecificOutput |->
            [present |-> output.Decision # "",
             HookEventName |-> IF output.Decision # "" THEN event ELSE "",
             PermissionDecision |-> output.Decision,
             PermissionDecisionReason |->
                 IF output.Decision = "deny" THEN output.Reason ELSE "",
             UpdatedInput |-> output.UpdatedInput,
             AdditionalContext |-> output.AdditionalContext]]

\* buildHookResponse that restates the reason for every decision
buildHookResponseReasonAlways(output, err, event) ==
    IF err \/ output.isNil
    THEN ContinueResponse
    ELSE [Continue |-> IF output.Continue # "nil"
                       THEN output.Continue = "true" ELSE TRUE,
          StopReason |-> output.StopReason,
          SystemMessage |-> output.SystemMessage,
          Reason |-> output.Reason,
          HookSpecificOutput |->
            IF output.Decision # ""
            THEN [present |-> TRUE,
                  HookEventName |-> event,
                  PermissionDecision |-> output.Decision,
                  PermissionDecisionReason |-> output.Reason,
                  UpdatedInput |-> output.UpdatedInput,
                  AdditionalContext |-> output.AdditionalContext]
            ELSE NoHookSpecificOutput]

\* Client.buildHookResponse(output, err, event)
buildHookResponse(output, err, event) ==
    IF err \/ output.isNil
    THEN ContinueResponse
    ELSE [Continue |-> IF output.Continue # "nil"
                       THEN output.Continue = "true" ELSE TRUE,
          StopReason |-> output.StopReason,
          SystemMessage |-> output.SystemMessage,
          Reason |-> output.Reason,
          HookSpecificOutput |->
            IF output.Decision # ""
            THEN [present |-> TRUE,
                  HookEventName |-> event,
                  PermissionDecision |-> output.Decision,
                  PermissionDecisionReason |->
                      IF output.Decision = "deny" THEN output.Reason ELSE "",
                  UpdatedInput |-> output.UpdatedInput,
                  AdditionalContext |-> output.AdditionalContext]
            ELSE NoHookSpecificOutput]

(* ------------------------------ frames --------------------------------- *)
\* an outbound frame (one JSON line written through Transport.Send)
Frame(type, subtype, requestID, response) ==
    [type |-> type, subtype |-> subtype, request_id |-> requestID,
     response |-> response]

\* the user-turn envelope Client.Query builds
UserFrame == Frame("user", "", 0, ContinueResponse)

\* a control request the client originates; generateRequestID is random, so
\* the id carries no information and is held as 0
ControlRequestFrame(subtype) ==
    Frame("control_request", subtype, 0, ContinueResponse)

\* NewControlResponseSuccess(requestID, response)
NewControlResponseSuccess(requestID, response) ==
    Frame("control_response", "success", requestID, response)

\* json.Marshal(resp) in sendControlResponse: fails on a value it cannot
\* encode, which can only sit in the hook's UpdatedInput
MarshalOK(frame) ==
    ~(frame.response.HookSpecificOutput.present
      /\ frame.response.HookSpecificOutput.UpdatedInput = "unsupported")

(* ------------------------------ state ---------------------------------- *)
VARIABLES
    cfg,            \* Client.cfg, fixed by NewClient
    transport,      \* Client.transport: "nil" or "set"
    connected,      \* Client.connected
    messages,       \* Client.messages, the outbound channel
    messagesCloses, \* how many times close(c.messages) has run
    serverInfo,     \* Client.serverInfo: 0 (nil) or the init frame it is from
    mu,             \* Client.mu: "free", or "Connect" while Connect holds it
    st_ready,       \* SubprocessTransport.ready / mockTransport.ready
    st_stdin,       \* SubprocessTransport.stdin: "nil" or "open"
    st_messages,    \* SubprocessTransport.messages / mockTransport.messagesCh
    st_errors,      \* SubprocessTransport.errors
    st_cmd,         \* the subprocess: "nil", "running", "exited", "killed"
    stdinCloses,    \* how many times stdin.Close() has been called
    kills,          \* how many times cmd.Process.Kill() has been called
    readerPc,       \* SubprocessTransport.readMessages goroutine
    stdout,         \* lines written by the peer and not yet scanned
    emitted,        \* number of lines the peer has written
    dropped,        \* lines the reader discarded because the channel was full
    pumpPc,         \* Client.readMessages goroutine (the pump)
    pumpCur,        \* the line the pump is working on
    pumpResp,       \* the hook response the pump is about to send
    taken,          \* conversation messages the pump has decoded so far
    hookLog,        \* every hook_callback request handled: how, hook result
    sendLog,        \* every Transport.Send call: frame, caller, result
    consumerHas,    \* the consumer got the channel from Messages()
    received,       \* what the consumer has received from that channel
    out,            \* the channel the one-shot Query returned
    relayPc,        \* the one-shot Query call and its relay goroutine
    relayCur,       \* the message the relay is about to pass on
    ctxDone,        \* the context given to the one-shot Query is cancelled
    yielded,        \* what the caller of Query has received from `out`
    writing,        \* the callers of Send that are inside st.stdin.Write
    ops,            \* number of API calls made so far
    returns,        \* the API calls that have returned, with their results
    callerPc,       \* an API call between its connected check and its Send
    codec,          \* a frame being decoded and encoded again, for itself
    sessions,       \* what repeated Connect calls on one client have made
    readers         \* what repeated Connect calls on one transport have made

vars == <<cfg, transport, connected, messages, messagesCloses, serverInfo, mu,
          st_ready, st_stdin, st_messages, st_errors, st_cmd, stdinCloses,
          kills, readerPc, stdout, emitted, dropped, pumpPc, pumpCur,
          pumpResp, taken, hookLog, sendLog, consumerHas, received, out,
          relayPc, relayCur, ctxDone, yielded, writing, ops, returns,
          callerPc, codec, sessions, readers>>

clientVars == <<transport, connected, messages, messagesCloses, serverInfo, mu>>
transportVars == <<st_ready, st_stdin, st_messages, st_errors, st_cmd,
                   stdinCloses, kills, readerPc>>
peerVars == <<stdout, emitted>>
pumpVars == <<pumpPc, pumpCur, pumpResp, taken, hookLog>>
queryVars == <<out, relayPc, relayCur, ctxDone, yielded>>
consumerVars == <<consumerHas, received, queryVars>>
callerVars == <<ops, returns, callerPc>>

NoCall == [op |-> "none", ctx |-> "live", frame |-> UserFrame]

\* no Connect yet: no outbound channel made, no pump started, no transport
\* channel to range over, nothing handed to a consumer
NoSessions ==
    [conn |-> FALSE, chans |-> <<>>, pumps |-> <<>>, srcs |-> <<>>,
     held |-> 0, lines |-> 0]

\* NewSubprocessTransport: st.messages and st.errors are made here, once;
\* no process and no readMessages goroutine yet
NoReaders ==
    [ready |-> FALSE,
     messages |-> [buf |-> 0, closes |-> 0, late |-> 0],
     errors |-> [buf |-> 0, closes |-> 0, late |-> 0],
     procs |-> <<>>, rds |-> <<>>, lines |-> 0]

\* state after NewClient(opts...): nothing connected, no goroutine started
InitClient(opts) ==
    /\ cfg \in {NewClient(o) : o \in opts}
    /\ transport = "nil"
    /\ connected = FALSE
    /\ messages = NilChan
    /\ messagesCloses = 0
    /\ serverInfo = 0
    /\ mu = "free"
    /\ st_ready = FALSE
    /\ st_stdin = "nil"
    /\ st_messages = NewChan
    /\ st_errors = NewChan
    /\ st_cmd = "nil"
    /\ stdinCloses = 0
    /\ kills = 0
    /\ readerPc = "none"
    /\ stdout = <<>>
    /\ emitted = 0
    /\ dropped = <<>>
    /\ pumpPc = "none"
    /\ pumpCur = NoLine
    /\ pumpResp = ContinueResponse
    /\ taken = <<>>
    /\ hookLog = <<>>
    /\ sendLog = <<>>
    /\ consumerHas = FALSE
    /\ received = <<>>
    /\ out = NilChan
    /\ relayPc = "none"
    /\ relayCur = NoLine
    /\ ctxDone = FALSE
    /\ yielded = <<>>
    /\ writing = {}
    /\ ops = 0
    /\ returns = <<>>
    /\ callerPc = NoCall
    /\ sessions = NoSessions
    /\ readers = NoReaders

\* no frame is being decoded outside the pump
NoCodec == [pc |-> "none"]

InitWith(opts) == InitClient(opts) /\ codec = NoCodec

IsMock == cfg.transport = "mock"

(* ---------------------------- the transport ---------------------------- *)
\* a Connect that starts a subprocess whether the transport is ready or not
TransportConnectAlways ==
    /\ st_ready' = TRUE
    /\ IF IsMock
       THEN UNCHANGED <<st_stdin, st_cmd, readerPc>>
       ELSE /\ st_stdin' = "open"
            /\ st_cmd' = "running"
            /\ readerPc' = "scan"
    /\ UNCHANGED <<st_messages, st_errors, stdinCloses, kills>>

\* SubprocessTransport.Connect: `if st.ready { return nil }`; otherwise,
\* when the executable is found and started, pipes stored, reader started,
\* ready set.  mockTransport.Connect: ready set.
TransportConnect ==
    IF ~IsMock /\ st_ready
    THEN UNCHANGED transportVars
    ELSE /\ st_ready' = TRUE
         /\ IF IsMock
            THEN UNCHANGED <<st_stdin, st_cmd, readerPc>>
            ELSE /\ st_stdin' = "open"
                 /\ st_cmd' = "running"
                 /\ readerPc' = "scan"
         /\ UNCHANGED <<st_messages, st_errors, stdinCloses, kills>>

\* the error Send returns for a call made in the current state.
\* SubprocessTransport.Send ignores its context; a write to the pipe of a
\* process that has gone fails (EPIPE).  mockTransport.Send checks the
\* context first, then ready.
SendErr(ctx) ==
    IF IsMock
    THEN IF ctx = "cancelled" THEN "ctx"
         ELSE IF ~st_ready THEN "ErrNotConnected" ELSE "nil"
    ELSE IF ~st_ready \/ st_stdin = "nil" THEN "ErrNotConnected"
         ELSE IF st_cmd # "running" THEN "EPIPE" ELSE "nil"

\* Transport.Send(ctx, frame) called by `by`: the call and its result are
\* logged; the frame reaches the peer exactly when the result is nil
TransportSend(frame, ctx, by) ==
    sendLog' = Append(sendLog, [frame |-> frame, by |-> by, err |-> SendErr(ctx)])

\* the frames that were written to the peer's stdin (or kept by the mock)
Written == SelectSeq(sendLog, LAMBDA e : e.err = "nil")

\* CloseIsNoop with the ready check left out
CloseNeverNoop == FALSE

\* the condition under which Close does nothing: `if !st.ready { return nil }`
CloseIsNoop == ~st_ready

\* a Close that does not take st.mu: it goes ahead while a Send is writing
TransportCloseUnlocked ==
    IF IsMock
    THEN /\ st_ready' = FALSE
         /\ UNCHANGED <<st_stdin, st_messages, st_errors, st_cmd, stdinCloses,
                        kills, readerPc>>
    ELSE IF CloseIsNoop
    THEN UNCHANGED transportVars
    ELSE /\ st_ready' = FALSE
         /\ IF st_stdin # "nil"
            THEN stdinCloses' = stdinCloses + 1 /\ st_stdin' = "nil"
            ELSE UNCHANGED <<stdinCloses, st_stdin>>
         /\ IF st_cmd # "nil"
            THEN /\ kills' = kills + 1
                 /\ st_cmd' = IF st_cmd = "running" THEN "killed" ELSE st_cmd
            ELSE UNCHANGED <<kills, st_cmd>>
         /\ UNCHANGED <<st_messages, st_errors, readerPc>>

\* SubprocessTransport.Close / mockTransport.Close.  The subprocess
\* transport's Close takes st.mu.Lock, so it waits for the Send calls that
\* hold st.mu.RLock.
TransportClose ==
    IF IsMock
    THEN /\ st_ready' = FALSE
         /\ UNCHANGED <<st_stdin, st_messages, st_errors, st_cmd, stdinCloses,
                        kills, readerPc>>
    ELSE IF CloseIsNoop
    THEN writing = {} /\ UNCHANGED transportVars
    ELSE /\ writing = {}
         /\ st_ready' = FALSE
         /\ IF st_stdin # "nil"
            THEN stdinCloses' = stdinCloses + 1 /\ st_stdin' = "nil"
            ELSE UNCHANGED <<stdinCloses, st_stdin>>
         /\ IF st_cmd # "nil"
            THEN /\ kills' = kills + 1
                 /\ st_cmd' = IF st_cmd = "running" THEN "killed" ELSE st_cmd
            ELSE UNCHANGED <<kills, st_cmd>>
         /\ UNCHANGED <<st_messages, st_errors, readerPc>>

\* what Transport.Close returns
TransportCloseErr == IF IsMock /\ cfg.closeErr THEN "close failed" ELSE "nil"

(* ------------------------------ the peer ------------------------------- *)
\* the subprocess writes one more line, of one of the given shapes, to its
\* stdout
PeerEmit(shapes, max) ==
    /\ st_cmd = "running"
    /\ emitted < max
    /\ \E l \in shapes : stdout' = Append(stdout, Stamp(l, emitted + 1))
    /\ emitted' = emitted + 1
    /\ UNCHANGED <<cfg, sessions, readers, codec, writing, clientVars, transportVars, dropped, pumpVars, sendLog,
                   consumerVars, callerVars>>

\* the subprocess exits by itself
PeerExit ==
    /\ st_cmd = "running"
    /\ st_cmd' = "exited"
    /\ UNCHANGED <<cfg, sessions, readers, codec, writing, clientVars, st_ready, st_stdin, st_messages, st_errors,
                   stdinCloses, kills, readerPc, peerVars, dropped, pumpVars,
                   sendLog, consumerVars, callerVars>>

\* exec.CommandContext(ctx, ...): the context given to Connect is cancelled
\* and os/exec kills the subprocess
ConnectCtxCancel ==
    /\ st_cmd = "running"
    /\ st_cmd' = "killed"
    /\ UNCHANGED <<cfg, sessions, readers, codec, writing, clientVars, st_ready, st_stdin, st_messages, st_errors,
                   stdinCloses, kills, readerPc, peerVars, dropped, pumpVars,
                   sendLog, consumerVars, callerVars>>

\* a test feeding an injected mockTransport: QueueMessage (a blocking send)
MockQueueMessage(shapes, max) ==
    /\ IsMock
    /\ ~st_messages.closed
    /\ emitted < max
    /\ ~ChanFull(st_messages, MsgChanCap)
    /\ \E l \in shapes :
           st_messages' = ChanSend(st_messages, Stamp(l, emitted + 1))
    /\ emitted' = emitted + 1
    /\ UNCHANGED <<cfg, sessions, readers, codec, writing, clientVars, st_ready, st_stdin, st_errors, st_cmd,
                   stdinCloses, kills, readerPc, stdout, dropped, pumpVars,
                   sendLog, consumerVars, callerVars>>

\* mockTransport.CloseMessages
MockCloseMessages ==
    /\ IsMock
    /\ ~st_messages.closed
    /\ st_messages' = ChanClose(st_messages)
    /\ UNCHANGED <<cfg, sessions, readers, codec, writing, clientVars, st_ready, st_stdin, st_errors, st_cmd,
                   stdinCloses, kills, readerPc, peerVars, dropped, pumpVars,
                   sendLog, consumerVars, callerVars>>

(* ---------------- SubprocessTransport.readMessages --------------------- *)
\* one iteration of `for scanner.Scan()`: an empty line is skipped, any
\* other line that fits the buffer is copied and offered to the channel
\* without blocking
ReaderScan ==
    /\ readerPc = "scan"
    /\ stdout # <<>>
    /\ Head(stdout).type # "toolong"
    /\ LET line == Head(stdout) IN
         /\ stdout' = Tail(stdout)
         /\ IF line.type = "empty"
            THEN UNCHANGED <<st_messages, dropped>>
            ELSE /\ st_messages' = ChanOffer(st_messages, line, MsgChanCap)
                 /\ dropped' = IF ChanFull(st_messages, MsgChanCap)
                               THEN Append(dropped, line) ELSE dropped
    /\ UNCHANGED <<cfg, sessions, readers, codec, writing, clientVars, st_ready, st_stdin, st_errors, st_cmd,
                   stdinCloses, kills, readerPc, emitted, pumpVars, sendLog,
                   consumerVars, callerVars>>

\* scanner.Scan() returns false on a line that does not fit the buffer
\* (bufio.ErrTooLong): the loop ends, what is left in the pipe is never
\* read, and scanner.Err() is offered to st.errors
ReaderTooLong ==
    /\ readerPc = "scan"
    /\ stdout # <<>>
    /\ Head(stdout).type = "toolong"
    /\ st_errors' = ChanOffer(st_errors, "ErrTooLong", ErrChanCap)
    /\ readerPc' = "wait"
    /\ UNCHANGED <<cfg, sessions, readers, codec, writing, clientVars, st_ready, st_stdin, st_messages, st_cmd,
                   stdinCloses, kills, peerVars, dropped, pumpVars, sendLog,
                   consumerVars, callerVars>>

\* scanner.Scan() returns false: the pipe is drained and the process is gone
ReaderEOF ==
    /\ readerPc = "scan"
    /\ stdout = <<>>
    /\ st_cmd \in {"exited", "killed"}
    /\ readerPc' = "wait"
    /\ UNCHANGED <<cfg, sessions, readers, codec, writing, clientVars, st_ready, st_stdin, st_messages, st_errors,
                   st_cmd, stdinCloses, kills, peerVars, dropped, pumpVars,
                   sendLog, consumerVars, callerVars>>

\* st.cmd.Wait() returns once the process is gone: a killed process yields
\* an error, offered to st.errors
ReaderWait ==
    /\ readerPc = "wait"
    /\ st_cmd \in {"exited", "killed"}
    /\ st_errors' = IF st_cmd = "killed"
                    THEN ChanOffer(st_errors, "exit", ErrChanCap)
                    ELSE st_errors
    /\ readerPc' = "closeErrors"
    /\ UNCHANGED <<cfg, sessions, readers, codec, writing, clientVars, st_ready, st_stdin, st_messages, st_cmd,
                   stdinCloses, kills, peerVars, dropped, pumpVars, sendLog,
                   consumerVars, callerVars>>

\* close(st.errors)
ReaderCloseErrors ==
    /\ readerPc = "closeErrors"
    /\ st_errors' = ChanClose(st_errors)
    /\ readerPc' = "return"
    /\ UNCHANGED <<cfg, sessions, readers, codec, writing, clientVars, st_ready, st_stdin, st_messages, st_cmd,
                   stdinCloses, kills, peerVars, dropped, pumpVars, sendLog,
                   consumerVars, callerVars>>

\* the deferred close(st.messages) as readMessages returns
ReaderReturn ==
    /\ readerPc = "return"
    /\ st_messages' = ChanClose(st_messages)
    /\ readerPc' = "done"
    /\ UNCHANGED <<cfg, sessions, readers, codec, writing, clientVars, st_ready, st_stdin, st_errors, st_cmd,
                   stdinCloses, kills, peerVars, dropped, pumpVars, sendLog,
                   consumerVars, callerVars>>

(* ------------------- Client.readMessages (the pump) -------------------- *)
\* Client.parseMessage: the switch on the top-level "type"
ConversationTypes == {"user", "assistant", "system", "result", "stream_event"}

\* a decoder that passes on what it does not recognise
parseMessagePassesUnknown(line) ==
    IF line.type = "control_request" THEN "control" ELSE "message"

parseMessage(line) ==
    IF line.type \in ConversationTypes THEN "message"
    ELSE IF line.type = "control_request" THEN "control"
    ELSE "nil"

\* a decoder that takes the data of any system frame for the server info
CapturesServerInfoAnySubtype(line) == line.type = "system" /\ line.hasData

\* parseSystemMessage stores the frame's data as c.serverInfo: the frame has
\* a data object and its subtype is init
CapturesServerInfo(line) ==
    line.type = "system" /\ line.hasData /\ line.subtype = "init"

\* a handler that answers a request for a callback id it does not know
\* with the default response
handleControlRequestAnswersUnknown(c, line) ==
    IF ~line.hasReq THEN "return"
    ELSE IF line.subtype # "hook_callback" THEN "return"
    ELSE IF line.cb \notin DOMAIN c.hookCallbacks THEN "default"
    ELSE IF line.event \in {"PreToolUse", "PostToolUse"}
            /\ c.hookCallbacks[line.cb] = line.event THEN "invoke"
    ELSE "default"

\* Client.handleControlRequest up to the point where it has a response or
\* must call the hook: "return" (nothing is sent), "invoke" (the registered
\* function has the type the event name asks for) or "default" (response
\* stays nil and becomes continue=true)
handleControlRequest(c, line) ==
    IF ~line.hasReq THEN "return"
    ELSE IF line.subtype # "hook_callback" THEN "return"
    ELSE IF line.cb \notin DOMAIN c.hookCallbacks THEN "return"
    ELSE IF line.event \in {"PreToolUse", "PostToolUse"}
            /\ c.hookCallbacks[line.cb] = line.event THEN "invoke"
    ELSE "default"

\* an entry of the hook log for a hook_callback request: how
\* handleControlRequest went ("return", "default"), or that the registered
\* function was called ("start") and how the call ended ("invoke" with what
\* it returned, "panic"); closed tells whether the client was no longer
\* connected at that moment
Handled(line, how, output, err) ==
    [line |-> line, how |-> how, output |-> output, err |-> err,
     closed |-> ~connected]

\* `for data := range c.transport.Messages()` takes one line and decodes it
PumpTake ==
    /\ pumpPc = "recv"
    /\ st_messages.buf # <<>>
    /\ LET data == Head(st_messages.buf)
           kind == parseMessage(data)
           ctl  == handleControlRequest(cfg, data)
       IN /\ st_messages' = ChanRecv(st_messages)
          /\ pumpCur' = data
          /\ pumpPc' = CASE kind = "nil" -> "recv"
                         [] kind = "message" ->
                              IF CapturesServerInfo(data)
                              THEN "init" ELSE "forward"
                         [] kind = "control" /\ ctl = "return" -> "recv"
                         [] kind = "control" /\ ctl = "invoke" -> "hook"
                         [] kind = "control" /\ ctl = "default" -> "respond"
          /\ pumpResp' = ContinueResponse
          /\ taken' = IF kind = "message" THEN Append(taken, data) ELSE taken
          /\ hookLog' = IF kind = "control" /\ data.subtype = "hook_callback"
                        THEN Append(hookLog,
                                    Handled(data,
                                            IF ctl = "invoke" THEN "start"
                                            ELSE ctl,
                                            NilOutput, FALSE))
                        ELSE hookLog
    /\ UNCHANGED <<cfg, sessions, readers, codec, writing, clientVars, st_ready, st_stdin, st_errors, st_cmd,
                   stdinCloses, kills, readerPc, peerVars, dropped, sendLog,
                   consumerVars, callerVars>>

\* parseSystemMessage on an init frame: c.mu.Lock(); c.serverInfo = data
PumpInit ==
    /\ pumpPc = "init"
    /\ mu = "free"
    /\ serverInfo' = pumpCur.n
    /\ pumpPc' = "forward"
    /\ UNCHANGED <<cfg, sessions, readers, codec, writing, transport, connected, messages, messagesCloses, mu,
                   transportVars, peerVars, dropped, pumpCur, pumpResp, taken,
                   hookLog, sendLog, consumerVars, callerVars>>

\* the registered hook returns (output, err); buildHookResponse translates
PumpHookReturn ==
    /\ pumpPc = "hook"
    /\ \E r \in HookReturns :
         /\ pumpResp' = buildHookResponse(r.output, r.err, pumpCur.event)
         /\ hookLog' = Append(hookLog,
                              Handled(pumpCur, "invoke", r.output, r.err))
    /\ pumpPc' = "respond"
    /\ UNCHANGED <<cfg, sessions, readers, codec, writing, clientVars, transportVars, peerVars, dropped, pumpCur,
                   taken, sendLog, consumerVars, callerVars>>

\* the registered hook panics: handleControlRequest has no recover, the
\* panic unwinds the pump goroutine and ends the program
PumpHookPanic ==
    /\ pumpPc = "hook"
    /\ hookLog' = Append(hookLog, Handled(pumpCur, "panic", NilOutput, FALSE))
    /\ pumpPc' = "panicked"
    /\ UNCHANGED <<cfg, sessions, readers, codec, writing, clientVars, transportVars, peerVars, dropped,
                   pumpCur, pumpResp, taken, sendLog, consumerVars, callerVars>>

\* sendControlResponse reading c.transport without taking c.mu
PumpRespondUnlocked ==
    /\ pumpPc = "respond"
    /\ LET resp == NewControlResponseSuccess(pumpCur.n, pumpResp) IN
         IF ~MarshalOK(resp)
         THEN UNCHANGED sendLog
         ELSE IF transport # "nil"
              THEN TransportSend(resp, "live", "pump")
              ELSE UNCHANGED sendLog
    /\ pumpPc' = "recv"
    /\ UNCHANGED <<cfg, sessions, readers, codec, writing, clientVars, transportVars, peerVars, dropped,
                   pumpCur, pumpResp, taken, hookLog, consumerVars, callerVars>>

\* a sendControlResponse whose failed Send ends the pump
PumpRespondStopsOnError ==
    /\ pumpPc = "respond"
    /\ LET resp == NewControlResponseSuccess(pumpCur.n, pumpResp) IN
         IF ~MarshalOK(resp)
         THEN UNCHANGED sendLog
         ELSE /\ mu = "free"
              /\ IF transport # "nil"
                 THEN TransportSend(resp, "live", "pump")
                 ELSE UNCHANGED sendLog
    /\ pumpPc' = IF /\ MarshalOK(NewControlResponseSuccess(pumpCur.n, pumpResp))
                     /\ transport # "nil"
                     /\ SendErr("live") # "nil"
                  THEN "panicked" ELSE "recv"
    /\ UNCHANGED <<cfg, sessions, readers, codec, writing, clientVars, transportVars, peerVars, dropped, pumpCur,
                   pumpResp, taken, hookLog, consumerVars, callerVars>>

\* Client.sendControlResponse: marshal, read c.transport under RLock, Send
PumpRespond ==
    /\ pumpPc = "respond"
    /\ LET resp == NewControlResponseSuccess(pumpCur.n, pumpResp) IN
         IF ~MarshalOK(resp)
         THEN UNCHANGED sendLog
         ELSE /\ mu = "free"
              /\ IF transport # "nil"
                 THEN TransportSend(resp, "live", "pump")
                 ELSE UNCHANGED sendLog
    /\ pumpPc' = "recv"
    /\ UNCHANGED <<cfg, sessions, readers, codec, writing, clientVars, transportVars, peerVars, dropped, pumpCur,
                   pumpResp, taken, hookLog, consumerVars, callerVars>>

\* c.messages <- msg   (blocks while the outbound channel is full)
PumpForward ==
    /\ pumpPc = "forward"
    /\ ~ChanFull(messages, OutChanCap)
    /\ messages' = ChanSend(messages, pumpCur)
    /\ pumpPc' = "recv"
    /\ UNCHANGED <<cfg, sessions, readers, codec, writing, transport, connected, messagesCloses, serverInfo, mu,
                   transportVars, peerVars, dropped, pumpCur, pumpResp, taken,
                   hookLog, sendLog, consumerVars, callerVars>>

\* a pump that leaves its loop as soon as the transport's channel is empty
PumpExitOnEmpty ==
    /\ pumpPc = "recv"
    /\ st_messages.buf = <<>>
    /\ messages' = ChanClose(messages)
    /\ messagesCloses' = messagesCloses + 1
    /\ pumpPc' = "done"
    /\ UNCHANGED <<cfg, sessions, readers, codec, writing, transport, connected, serverInfo, mu, transportVars,
                   peerVars, dropped, pumpCur, pumpResp, taken, hookLog,
                   sendLog, consumerVars, callerVars>>

\* a pump that marks the client as not connected when it returns
PumpExitDisconnects ==
    /\ pumpPc = "recv"
    /\ st_messages.buf = <<>>
    /\ st_messages.closed
    /\ messages' = ChanClose(messages)
    /\ messagesCloses' = messagesCloses + 1
    /\ pumpPc' = "done"
    /\ connected' = FALSE
    /\ UNCHANGED <<cfg, sessions, readers, codec, writing, transport, serverInfo, mu, transportVars,
                   peerVars, dropped, pumpCur, pumpResp, taken, hookLog,
                   sendLog, consumerVars, callerVars>>

\* the range loop ends when the transport's channel is closed and drained;
\* the deferred close(c.messages) runs
PumpExit ==
    /\ pumpPc = "recv"
    /\ st_messages.buf = <<>>
    /\ st_messages.closed
    /\ messages' = ChanClose(messages)
    /\ messagesCloses' = messagesCloses + 1
    /\ pumpPc' = "done"
    /\ UNCHANGED <<cfg, sessions, readers, codec, writing, transport, connected, serverInfo, mu, transportVars,
                   peerVars, dropped, pumpCur, pumpResp, taken, hookLog,
                   sendLog, consumerVars, callerVars>>

(* ----------------------------- the consumer ---------------------------- *)
\* a Messages() that hands out c.messages whatever c.connected is
ClientMessagesUnguarded == messages

\* what Client.Messages() returns: nil unless connected, else c.messages
ClientMessages == IF ~connected THEN NilChan ELSE messages

\* Client.Messages() on a connected client hands out c.messages
MessagesCall ==
    /\ mu = "free"
    /\ connected
    /\ ~consumerHas
    /\ consumerHas' = TRUE
    /\ UNCHANGED <<cfg, sessions, readers, codec, writing, clientVars, transportVars, peerVars, dropped, pumpVars,
                   sendLog, received, queryVars, callerVars>>

\* the consumer receives the next message from the channel it holds
ConsumerRecv ==
    /\ consumerHas
    /\ messages.buf # <<>>
    /\ received' = Append(received, Head(messages.buf))
    /\ messages' = ChanRecv(messages)
    /\ UNCHANGED <<cfg, sessions, readers, codec, writing, transport, connected, messagesCloses, serverInfo, mu,
                   transportVars, peerVars, dropped, pumpVars, sendLog,
                   consumerHas, queryVars, callerVars>>

(* ------------------------- the client's API ---------------------------- *)
Ctxs == {"live", "cancelled"}

\* the call op(ctx) returns err
Returned(op, ctx, err) ==
    returns' = Append(returns, [op |-> op, ctx |-> ctx, err |-> err])

\* Client.Connect with a cancelled context: returns ctx.Err() at once
ConnectCancelled ==
    /\ ops < MaxOps
    /\ pumpPc = "none"
    /\ callerPc = NoCall
    /\ ops' = ops + 1
    /\ Returned("Connect", "cancelled", "ctx")
    /\ UNCHANGED <<cfg, sessions, readers, codec, writing, clientVars, transportVars, peerVars, dropped, pumpVars,
                   sendLog, consumerVars, callerPc>>

\* Client.Connect, transport.Connect fails (executable not found, pipe or
\* start failure): c.transport is set, nothing else changes
ConnectFails ==
    /\ ops < MaxOps
    /\ pumpPc = "none"
    /\ callerPc = NoCall
    /\ mu = "free"
    /\ ~IsMock
    /\ transport' = "set"
    /\ ops' = ops + 1
    /\ Returned("Connect", "live", "connect")
    /\ UNCHANGED <<cfg, sessions, readers, codec, writing, connected, messages, messagesCloses, serverInfo, mu,
                   transportVars, peerVars, dropped, pumpVars, sendLog,
                   consumerVars, callerPc>>

\* Client.Connect up to `c.connected = true`: transport chosen and
\* connected, outbound channel made, pump started.  With hooks registered
\* Connect goes on, still holding c.mu, to sendInitialize.
Connect ==
    /\ ops < MaxOps
    /\ pumpPc = "none"
    /\ callerPc = NoCall
    /\ mu = "free"
    /\ transport' = "set"
    /\ TransportConnect
    /\ messages' = NewChan
    /\ pumpPc' = "recv"
    /\ connected' = TRUE
    /\ ops' = ops + 1
    /\ IF HasHooks(cfg)
       THEN mu' = "Connect" /\ UNCHANGED returns
       ELSE mu' = mu /\ Returned("Connect", "live", "nil")
    /\ UNCHANGED <<cfg, sessions, readers, codec, writing, messagesCloses, serverInfo, peerVars, dropped, pumpCur,
                   pumpResp, taken, hookLog, sendLog, consumerVars, callerPc>>

\* a Connect that returns the error of sendInitialize and undoes nothing
ConnectInitializeNoUndo ==
    /\ mu = "Connect"
    /\ TransportSend(ControlRequestFrame("initialize"), "live", "Connect")
    /\ Returned("Connect", "live", SendErr("live"))
    /\ mu' = "free"
    /\ UNCHANGED <<cfg, sessions, readers, codec, writing, transport, connected, transportVars, messages,
                   messagesCloses, serverInfo, peerVars, dropped, pumpVars,
                   consumerVars, ops, callerPc>>

\* the rest of Connect: sendInitialize; on failure connected is reset and
\* the transport closed
ConnectInitialize ==
    /\ mu = "Connect"
    /\ TransportSend(ControlRequestFrame("initialize"), "live", "Connect")
    /\ IF SendErr("live") = "nil"
       THEN UNCHANGED <<connected, transportVars>>
       ELSE connected' = FALSE /\ TransportClose
    /\ Returned("Connect", "live", SendErr("live"))
    /\ mu' = "free"
    /\ UNCHANGED <<cfg, sessions, readers, codec, writing, transport, messages, messagesCloses, serverInfo,
                   peerVars, dropped, pumpVars, consumerVars, ops, callerPc>>

\* the guard of Client.Close: `if !c.connected { return nil }`
ClientCloseIsNoop == ~connected

\* Client.Close
Close ==
    /\ ops < MaxOps
    /\ mu = "free"
    /\ ops' = ops + 1
    /\ IF ClientCloseIsNoop
       THEN /\ Returned("Close", "live", "nil")
            /\ UNCHANGED <<connected, transportVars>>
       ELSE /\ connected' = FALSE
            /\ IF transport # "nil"
               THEN TransportClose /\ Returned("Close", "live", TransportCloseErr)
               ELSE UNCHANGED transportVars /\ Returned("Close", "live", "nil")
    /\ UNCHANGED <<cfg, sessions, readers, codec, writing, transport, messages, messagesCloses, serverInfo, mu,
                   peerVars, dropped, pumpVars, sendLog, consumerVars, callerPc>>

\* Connect called on the subprocess transport itself by the code that holds
\* it, before the transport was ever started or while it is ready
TransportConnectDirect ==
    /\ ops < MaxOps
    /\ ~IsMock
    /\ st_ready \/ st_cmd = "nil"
    /\ ops' = ops + 1
    /\ TransportConnect
    /\ Returned("Transport.Connect", "live", "nil")
    /\ UNCHANGED <<cfg, sessions, readers, codec, writing, clientVars, peerVars, dropped, pumpVars, sendLog,
                   consumerVars, callerPc>>

\* Close called on the transport itself by the code that holds it
TransportCloseDirect ==
    /\ ops < MaxOps
    /\ ops' = ops + 1
    /\ TransportClose
    /\ Returned("Transport.Close", "live", TransportCloseErr)
    /\ UNCHANGED <<cfg, sessions, readers, codec, writing, clientVars, peerVars, dropped, pumpVars, sendLog,
                   consumerVars, callerPc>>

\* the operations that send one frame
SendOps == {"Query", "Interrupt", "SetPermissionMode", "SetModel"}

OpFrame(op) ==
    CASE op = "Query" -> UserFrame
      [] op = "Interrupt" -> ControlRequestFrame("interrupt")
      [] op = "SetPermissionMode" -> ControlRequestFrame("set_permission_mode")
      [] op = "SetModel" -> ControlRequestFrame("set_model")

\* OpGuard with the context check left out of Query
OpGuardQueryUnchecked(op, ctx, isConnected) ==
    IF ~isConnected THEN "ErrNotConnected" ELSE ""

\* OpGuard with the connected check left out of SetModel
OpGuardSetModelUnchecked(op, ctx, isConnected) ==
    IF op = "Query" /\ ctx = "cancelled" THEN "ctx"
    ELSE IF ~isConnected /\ op # "SetModel" THEN "ErrNotConnected"
    ELSE ""

\* what the operation returns before it reaches Send, "" if it goes on to
\* Send: Query alone checks its context; all four check c.connected
OpGuard(op, ctx, isConnected) ==
    IF op = "Query" /\ ctx = "cancelled" THEN "ctx"
    ELSE IF ~isConnected THEN "ErrNotConnected"
    ELSE ""

\* Query / Interrupt / SetPermissionMode / SetModel up to RUnlock
OpCall(op, ctx) ==
    /\ ops < MaxOps
    /\ callerPc = NoCall
    /\ mu = "free"
    /\ ops' = ops + 1
    /\ LET g == OpGuard(op, ctx, connected) IN
         IF g # ""
         THEN Returned(op, ctx, g) /\ UNCHANGED callerPc
         ELSE /\ callerPc' = [op |-> op, ctx |-> ctx, frame |-> OpFrame(op)]
              /\ UNCHANGED returns
    /\ UNCHANGED <<cfg, sessions, readers, codec, writing, clientVars, transportVars, peerVars, dropped, pumpVars,
                   sendLog, consumerVars>>

\* ... and its `return transport.Send(ctx, data)`
OpSend ==
    /\ callerPc # NoCall
    /\ TransportSend(callerPc.frame, callerPc.ctx, callerPc.op)
    /\ Returned(callerPc.op, callerPc.ctx, SendErr(callerPc.ctx))
    /\ callerPc' = NoCall
    /\ UNCHANGED <<cfg, sessions, readers, codec, writing, clientVars, transportVars, peerVars, dropped, pumpVars,
                   consumerVars, ops>>

(* ---------------------- Send, one step at a time ----------------------- *)
\* Client.Query / Client.Interrupt with a live context, down to the start of
\* st.stdin.Write: connected is checked under c.mu.RLock, Send takes
\* st.mu.RLock (shared with every other Send) and checks ready and stdin
SendBegin(op) ==
    /\ ops < MaxOps
    /\ mu = "free"
    /\ op \notin writing
    /\ ops' = ops + 1
    /\ LET g == OpGuard(op, "live", connected) IN
         IF g # ""
         THEN Returned(op, "live", g) /\ UNCHANGED <<sendLog, writing>>
         ELSE IF SendErr("live") = "ErrNotConnected"
         THEN /\ TransportSend(OpFrame(op), "live", op)
              /\ Returned(op, "live", "ErrNotConnected")
              /\ UNCHANGED writing
         ELSE /\ writing' = writing \cup {op}
              /\ UNCHANGED <<sendLog, returns>>
    /\ UNCHANGED <<cfg, sessions, readers, codec, clientVars, transportVars, peerVars, dropped, pumpVars,
                   consumerVars, callerPc>>

\* st.stdin.Write returns, st.mu.RUnlock, the method returns
SendEnd(op) ==
    /\ op \in writing
    /\ op # "pump"
    /\ TransportSend(OpFrame(op), "live", op)
    /\ Returned(op, "live", SendErr("live"))
    /\ writing' = writing \ {op}
    /\ UNCHANGED <<cfg, sessions, readers, codec, clientVars, transportVars, peerVars, dropped, pumpVars,
                   consumerVars, ops, callerPc>>

\* Client.sendControlResponse down to the start of st.stdin.Write
PumpRespondBegin ==
    /\ pumpPc = "respond"
    /\ LET resp == NewControlResponseSuccess(pumpCur.n, pumpResp) IN
         IF ~MarshalOK(resp)
         THEN pumpPc' = "recv" /\ UNCHANGED <<sendLog, writing>>
         ELSE /\ mu = "free"
              /\ IF transport = "nil"
                 THEN pumpPc' = "recv" /\ UNCHANGED <<sendLog, writing>>
                 ELSE IF SendErr("live") = "ErrNotConnected"
                 THEN /\ TransportSend(resp, "live", "pump")
                      /\ pumpPc' = "recv"
                      /\ UNCHANGED writing
                 ELSE /\ writing' = writing \cup {"pump"}
                      /\ pumpPc' = "write"
                      /\ UNCHANGED sendLog
    /\ UNCHANGED <<cfg, sessions, readers, codec, clientVars, transportVars, peerVars, dropped, pumpCur,
                   pumpResp, taken, hookLog, consumerVars, callerVars>>

\* ... and its end: Write returns, the result is ignored
PumpRespondEnd ==
    /\ pumpPc = "write"
    /\ TransportSend(NewControlResponseSuccess(pumpCur.n, pumpResp), "live",
                     "pump")
    /\ writing' = writing \ {"pump"}
    /\ pumpPc' = "recv"
    /\ UNCHANGED <<cfg, sessions, readers, codec, clientVars, transportVars, peerVars, dropped, pumpCur,
                   pumpResp, taken, hookLog, consumerVars, callerVars>>

(* ------------------------- the one-shot Query -------------------------- *)
\* the context the one-shot Query passes on to the client's methods
QueryCtx == IF ctxDone THEN "cancelled" ELSE "live"

\* a Query that leaves its client as it is
QueryClientCloseSkipped == UNCHANGED <<connected, transportVars>>

\* `_ = client.Close()` as the one-shot Query calls it
QueryClientClose ==
    IF ClientCloseIsNoop
    THEN UNCHANGED <<connected, transportVars>>
    ELSE connected' = FALSE /\ TransportClose

\* Query(ctx, prompt, opts...): NewClient and client.Connect(ctx); a
\* cancelled context makes Connect, and so Query, return the error
QueryConnect ==
    /\ relayPc = "none"
    /\ pumpPc = "none"
    /\ mu = "free"
    /\ IF ctxDone
       THEN /\ relayPc' = "failed"
            /\ Returned("claude.Query", "cancelled", "ctx")
            /\ UNCHANGED <<clientVars, transportVars, pumpPc>>
       ELSE /\ transport' = "set"
            /\ TransportConnect
            /\ messages' = NewChan
            /\ pumpPc' = "recv"
            /\ connected' = TRUE
            /\ relayPc' = "query"
            /\ UNCHANGED <<messagesCloses, serverInfo, mu, returns>>
    /\ UNCHANGED <<cfg, sessions, readers, codec, writing, peerVars, dropped, pumpCur, pumpResp, taken, hookLog,
                   sendLog, consumerHas, received, out, relayCur, ctxDone,
                   yielded, ops, callerPc>>

\* client.Query(ctx, prompt); on an error the client is closed and Query
\* returns the error, otherwise `out` is made and the relay started
QuerySend ==
    /\ relayPc = "query"
    /\ LET g   == OpGuard("Query", QueryCtx, connected)
           err == IF g # "" THEN g ELSE SendErr(QueryCtx)
       IN /\ IF g # ""
             THEN UNCHANGED sendLog
             ELSE TransportSend(UserFrame, QueryCtx, "Query")
          /\ IF err # "nil"
             THEN /\ QueryClientClose
                  /\ relayPc' = "failed"
                  /\ UNCHANGED out
             ELSE /\ UNCHANGED <<connected, transportVars>>
                  /\ out' = NewChan
                  /\ relayPc' = "msgs"
          /\ Returned("claude.Query", QueryCtx, err)
    /\ UNCHANGED <<cfg, sessions, readers, codec, writing, transport, messages, messagesCloses, serverInfo, mu,
                   peerVars, dropped, pumpVars, consumerHas, received,
                   relayCur, ctxDone, yielded, ops, callerPc>>

\* relay: `msgs := client.Messages(); if msgs == nil { return }`
RelayMessages ==
    /\ relayPc = "msgs"
    /\ mu = "free"
    /\ relayPc' = IF connected THEN "recv" ELSE "close"
    /\ UNCHANGED <<cfg, sessions, readers, codec, writing, clientVars, transportVars, peerVars, dropped, pumpVars,
                   sendLog, consumerHas, received, out, relayCur, ctxDone,
                   yielded, callerVars>>

\* relay: `for msg := range msgs` receives the next message
RelayRecv ==
    /\ relayPc = "recv"
    /\ messages.buf # <<>>
    /\ relayCur' = Head(messages.buf)
    /\ messages' = ChanRecv(messages)
    /\ relayPc' = "select"
    /\ UNCHANGED <<cfg, sessions, readers, codec, writing, transport, connected, messagesCloses, serverInfo, mu,
                   transportVars, peerVars, dropped, pumpVars, sendLog,
                   consumerHas, received, out, ctxDone, yielded, callerVars>>

\* relay: the range loop ends, the client's channel is closed and drained
RelayRangeEnd ==
    /\ relayPc = "recv"
    /\ messages.buf = <<>>
    /\ messages.closed
    /\ relayPc' = "close"
    /\ UNCHANGED <<cfg, sessions, readers, codec, writing, clientVars, transportVars, peerVars, dropped, pumpVars,
                   sendLog, consumerHas, received, out, relayCur, ctxDone,
                   yielded, callerVars>>

\* a relay that goes on after it has passed a result on
RelaySendGoesOn ==
    /\ relayPc = "select"
    /\ ~ChanFull(out, QueryChanCap)
    /\ out' = ChanSend(out, relayCur)
    /\ relayPc' = "recv"
    /\ UNCHANGED <<cfg, sessions, readers, codec, writing, clientVars, transportVars, peerVars, dropped, pumpVars,
                   sendLog, consumerHas, received, relayCur, ctxDone, yielded,
                   callerVars>>

\* relay: `case out <- msg:`, returning after a ResultMessage
RelaySend ==
    /\ relayPc = "select"
    /\ ~ChanFull(out, QueryChanCap)
    /\ out' = ChanSend(out, relayCur)
    /\ relayPc' = IF relayCur.type = "result" THEN "close" ELSE "recv"
    /\ UNCHANGED <<cfg, sessions, readers, codec, writing, clientVars, transportVars, peerVars, dropped, pumpVars,
                   sendLog, consumerHas, received, relayCur, ctxDone, yielded,
                   callerVars>>

\* relay: `case <-ctx.Done(): return`; the message in hand is not passed on
RelayCtxDone ==
    /\ relayPc = "select"
    /\ ctxDone
    /\ relayPc' = "close"
    /\ UNCHANGED <<cfg, sessions, readers, codec, writing, clientVars, transportVars, peerVars, dropped, pumpVars,
                   sendLog, consumerHas, received, out, relayCur, ctxDone,
                   yielded, callerVars>>

\* relay: the deferred `_ = client.Close()`
RelayClose ==
    /\ relayPc = "close"
    /\ mu = "free"
    /\ QueryClientClose
    /\ relayPc' = "closeOut"
    /\ UNCHANGED <<cfg, sessions, readers, codec, writing, transport, messages, messagesCloses, serverInfo, mu,
                   peerVars, dropped, pumpVars, sendLog, consumerHas, received,
                   out, relayCur, ctxDone, yielded, callerVars>>

\* relay: the deferred close(out)
RelayCloseOut ==
    /\ relayPc = "closeOut"
    /\ out' = ChanClose(out)
    /\ relayPc' = "done"
    /\ UNCHANGED <<cfg, sessions, readers, codec, writing, clientVars, transportVars, peerVars, dropped, pumpVars,
                   sendLog, consumerHas, received, relayCur, ctxDone, yielded,
                   callerVars>>

\* the context given to Query is cancelled; os/exec kills a subprocess
\* started under it
QueryCtxCancel ==
    /\ ~ctxDone
    /\ ctxDone' = TRUE
    /\ st_cmd' = IF st_cmd = "running" THEN "killed" ELSE st_cmd
    /\ UNCHANGED <<cfg, sessions, readers, codec, writing, clientVars, st_ready, st_stdin, st_messages, st_errors,
                   stdinCloses, kills, readerPc, peerVars, dropped, pumpVars,
                   sendLog, consumerHas, received, out, relayPc, relayCur,
                   yielded, callerVars>>

\* the caller of Query receives from the returned channel
QueryCallerRecv ==
    /\ out.buf # <<>>
    /\ yielded' = Append(yielded, Head(out.buf))
    /\ out' = ChanRecv(out)
    /\ UNCHANGED <<cfg, sessions, readers, codec, writing, clientVars, transportVars, peerVars, dropped, pumpVars,
                   sendLog, consumerHas, received, relayPc, relayCur, ctxDone,
                   callerVars>>

\* QueryResult's loop `for msg := range msgs`: result is the last
\* ResultMessage among the messages received, 0 (nil) if there is none
RECURSIVE RangeResult(_, _)
RangeResult(msgs, result) ==
    IF msgs = <<>> THEN result
    ELSE RangeResult(Tail(msgs),
                     IF Head(msgs).type = "result" THEN Head(msgs).n
                     ELSE result)

\* QueryResult has returned
QueryResultReturned ==
    \E i \in 1..Len(returns) : returns[i].op = "QueryResult"

\* QueryResult returns (result, err)
ReturnedResult(result, err) ==
    returns' = Append(returns, [op |-> "QueryResult", ctx |-> QueryCtx,
                                err |-> err, result |-> result])

\* QueryResult: Query returned an error, which is passed on with a nil result
QueryResultFails ==
    /\ relayPc = "failed"
    /\ ~QueryResultReturned
    /\ ReturnedResult(0, Last(returns).err)
    /\ UNCHANGED <<cfg, sessions, readers, codec, writing, clientVars, transportVars, peerVars, dropped,
                   pumpVars, sendLog, consumerVars, ops, callerPc>>

\* a QueryResult that returns what it has as soon as the channel is empty
QueryResultReturnEarly ==
    /\ ~out.isNil
    /\ out.buf = <<>>
    /\ ~QueryResultReturned
    /\ LET result == RangeResult(yielded, 0) IN
         ReturnedResult(result, IF result = 0 THEN "ErrNoResult" ELSE "nil")
    /\ UNCHANGED <<cfg, sessions, readers, codec, writing, clientVars, transportVars, peerVars, dropped,
                   pumpVars, sendLog, consumerVars, ops, callerPc>>

\* QueryResult: the range loop over the returned channel ends when the
\* channel is closed and drained; ErrNoResult if no ResultMessage was seen
QueryResultReturn ==
    /\ out.closed
    /\ out.buf = <<>>
    /\ ~QueryResultReturned
    /\ LET result == RangeResult(yielded, 0) IN
         ReturnedResult(result, IF result = 0 THEN "ErrNoResult" ELSE "nil")
    /\ UNCHANGED <<cfg, sessions, readers, codec, writing, clientVars, transportVars, peerVars, dropped,
                   pumpVars, sendLog, consumerVars, ops, callerPc>>

(* --------------------------- specification ----------------------------- *)
\* a session in which the application drives the whole API
Next ==
    \/ PeerEmit(ApiLines, MaxApiLines)
    \/ PeerExit
    \/ ConnectCtxCancel
    \/ MockQueueMessage(ApiLines, MaxApiLines)
    \/ MockCloseMessages
    \/ ReaderScan
    \/ ReaderEOF
    \/ ReaderWait
    \/ ReaderCloseErrors
    \/ ReaderReturn
    \/ PumpTake
    \/ PumpForward
    \/ PumpExit
    \/ MessagesCall
    \/ ConsumerRecv
    \/ ConnectCancelled
    \/ ConnectFails
    \/ Connect
    \/ ConnectInitialize
    \/ Close
    \/ TransportCloseDirect
    \/ \E op \in SendOps, ctx \in Ctxs : OpCall(op, ctx)
    \/ OpSend

\* a session whose peer sends control requests to a client with hooks
NextHooks ==
    \/ PeerEmit(HookLines, MaxHookLines)
    \/ PeerExit
    \/ MockQueueMessage(HookLines, MaxHookLines)
    \/ MockCloseMessages
    \/ ReaderScan
    \/ ReaderEOF
    \/ ReaderWait
    \/ ReaderCloseErrors
    \/ ReaderReturn
    \/ PumpTake
    \/ PumpHookReturn
    \/ PumpHookPanic
    \/ PumpRespond
    \/ PumpForward
    \/ PumpExit
    \/ MessagesCall
    \/ ConsumerRecv
    \/ Connect
    \/ ConnectInitialize
    \/ Close

HookOptions ==
    {[mock |-> m, closeErr |-> FALSE, regs |-> r] :
        m \in BOOLEAN,
        r \in {<<>>, <<"PreToolUse">>, <<"PreToolUse", "PostToolUse">>,
               <<"Stop">>}}

InitHooks == InitWith(HookOptions)

SpecHooks == InitHooks /\ [][NextHooks]_vars

\* line shapes of a session of concurrent senders: one hook callback
SendLines == {CtlLine(0, "hook_callback", 0, "PreToolUse")}

\* a session on a subprocess transport in which Query, Interrupt and the
\* pump's hook responses run concurrently, Send taken one step at a time
NextSend ==
    \/ PeerEmit(SendLines, MaxSendLines)
    \/ PeerExit
    \/ ReaderScan
    \/ ReaderEOF
    \/ ReaderWait
    \/ ReaderCloseErrors
    \/ ReaderReturn
    \/ PumpTake
    \/ PumpHookReturn
    \/ PumpRespondBegin
    \/ PumpRespondEnd
    \/ PumpExit
    \/ Connect
    \/ ConnectInitialize
    \/ Close
    \/ \E op \in {"Query", "Interrupt"} : SendBegin(op)
    \/ \E op \in {"Query", "Interrupt"} : SendEnd(op)

SendOptions ==
    {[mock |-> FALSE, closeErr |-> FALSE, regs |-> <<"PreToolUse">>]}

InitSend == InitWith(SendOptions)

SpecSend == InitSend /\ [][NextSend]_vars

\* a session in which API calls and hook responses race the handshake
NextHandshake ==
    \/ PeerEmit(SendLines, MaxHandshakeLines)
    \/ PeerExit
    \/ MockQueueMessage(SendLines, MaxHandshakeLines)
    \/ MockCloseMessages
    \/ ReaderScan
    \/ ReaderEOF
    \/ ReaderWait
    \/ ReaderCloseErrors
    \/ ReaderReturn
    \/ PumpTake
    \/ PumpHookReturn
    \/ PumpRespond
    \/ PumpExit
    \/ ConnectCancelled
    \/ ConnectFails
    \/ Connect
    \/ ConnectInitialize
    \/ Close
    \/ \E op \in SendOps, ctx \in Ctxs : OpCall(op, ctx)
    \/ OpSend

HandshakeOptions ==
    {[mock |-> m, closeErr |-> FALSE, regs |-> r] :
        m \in BOOLEAN, r \in {<<>>, <<"PreToolUse">>, <<"Stop">>}}

InitHandshake == InitWith(HandshakeOptions)

SpecHandshake == InitHandshake /\ [][NextHandshake]_vars

\* a session whose peer streams conversation messages
NextStream ==
    \/ PeerEmit(StreamLines, MaxStreamLines)
    \/ PeerExit
    \/ ConnectCtxCancel
    \/ MockQueueMessage(StreamLines \ {ConvLine("empty", 0)}, MaxStreamLines)
    \/ MockCloseMessages
    \/ ReaderScan
    \/ ReaderEOF
    \/ ReaderWait
    \/ ReaderCloseErrors
    \/ ReaderReturn
    \/ PumpTake
    \/ PumpInit
    \/ PumpForward
    \/ PumpExit
    \/ MessagesCall
    \/ ConsumerRecv
    \/ Connect
    \/ Close

StreamOptions ==
    {[mock |-> m, closeErr |-> FALSE, regs |-> <<>>] : m \in BOOLEAN}

InitStream == InitWith(StreamOptions)

SpecStream == InitStream /\ [][NextStream]_vars

\* the goroutines the Go scheduler keeps running: the transport's reader
\* and the pump.  Nothing obliges the peer to write, the application to
\* call, or the consumer to receive.
Fairness ==
    /\ WF_vars(ReaderScan)
    /\ WF_vars(ReaderEOF)
    /\ WF_vars(ReaderWait)
    /\ WF_vars(ReaderCloseErrors)
    /\ WF_vars(ReaderReturn)
    /\ WF_vars(PumpTake)
    /\ WF_vars(PumpInit)
    /\ WF_vars(PumpForward)
    /\ WF_vars(PumpExit)

SpecStreamFair == SpecStream /\ Fairness

\* one call of the one-shot Query, without hooks
NextQuery ==
    \/ PeerEmit(QueryLines, MaxQueryLines)
    \/ PeerExit
    \/ MockQueueMessage(QueryLines, MaxQueryLines)
    \/ MockCloseMessages
    \/ ReaderScan
    \/ ReaderEOF
    \/ ReaderWait
    \/ ReaderCloseErrors
    \/ ReaderReturn
    \/ PumpTake
    \/ PumpForward
    \/ PumpExit
    \/ QueryConnect
    \/ QuerySend
    \/ RelayMessages
    \/ RelayRecv
    \/ RelayRangeEnd
    \/ RelaySend
    \/ RelayCtxDone
    \/ RelayClose
    \/ RelayCloseOut
    \/ QueryCtxCancel
    \/ QueryCallerRecv
    \/ QueryResultFails
    \/ QueryResultReturn

SpecQuery == InitStream /\ [][NextQuery]_vars

ApiOptions ==
    {[mock |-> m, closeErr |-> ce, regs |-> r] :
        m \in BOOLEAN, ce \in BOOLEAN, r \in {<<>>, <<"PreToolUse">>}}

Init == InitWith(ApiOptions)

Spec == Init /\ [][Next]_vars

\* lines the peer writes in a session that exercises every hook event
MaxEventLines == 2

\* line shapes of that session: a hook_callback for the first registered
\* callback (hook_0), naming each of the six events
EventLines == {CtlLine(0, "hook_callback", 0, e) : e \in HookEvents}

\* a session of a client with one hook, registered for any of the six events
NextEvents ==
    \/ PeerEmit(EventLines, MaxEventLines)
    \/ PeerExit
    \/ MockQueueMessage(EventLines, MaxEventLines)
    \/ MockCloseMessages
    \/ ReaderScan
    \/ ReaderEOF
    \/ ReaderWait
    \/ ReaderCloseErrors
    \/ ReaderReturn
    \/ PumpTake
    \/ PumpHookReturn
    \/ PumpRespond
    \/ PumpExit
    \/ Connect
    \/ ConnectInitialize
    \/ Close

EventOptions ==
    {[mock |-> m, closeErr |-> FALSE, regs |-> <<e>>] :
        m \in BOOLEAN, e \in HookEvents}

InitEvents == InitWith(EventOptions)

SpecEvents == InitEvents /\ [][NextEvents]_vars

\* lines the peer writes in a session that follows the transport's reader
MaxScanLines == 3

\* line shapes of that session: a conversation frame and a line that does
\* not fit the scan buffer
ScanLines == {ConvLine("assistant", 0), LongLine(0)}

\* a session on a subprocess transport, the reader taken to its very end
NextScan ==
    \/ PeerEmit(ScanLines, MaxScanLines)
    \/ PeerExit
    \/ ConnectCtxCancel
    \/ ReaderScan
    \/ ReaderTooLong
    \/ ReaderEOF
    \/ ReaderWait
    \/ ReaderCloseErrors
    \/ ReaderReturn
    \/ PumpTake
    \/ PumpForward
    \/ PumpExit
    \/ MessagesCall
    \/ ConsumerRecv
    \/ Connect
    \/ Close

ScanOptions == {[mock |-> FALSE, closeErr |-> FALSE, regs |-> <<>>]}

InitScan == InitWith(ScanOptions)

SpecScan == InitScan /\ [][NextScan]_vars

\* Send called on the transport itself by the code that holds it
TransportSendDirect ==
    /\ ops < MaxOps
    /\ ops' = ops + 1
    /\ TransportSend(UserFrame, "live", "Transport.Send")
    /\ Returned("Transport.Send", "live", SendErr("live"))
    /\ UNCHANGED <<cfg, sessions, readers, codec, writing, clientVars, transportVars, peerVars, dropped,
                   pumpVars, consumerVars, callerPc>>

\* a subprocess transport driven directly, without a client
NextTransport ==
    \/ PeerEmit(ApiLines, MaxApiLines)
    \/ PeerExit
    \/ ReaderScan
    \/ ReaderEOF
    \/ ReaderWait
    \/ ReaderCloseErrors
    \/ ReaderReturn
    \/ TransportConnectDirect
    \/ TransportSendDirect
    \/ TransportCloseDirect

TransportOptions == {[mock |-> FALSE, closeErr |-> FALSE, regs |-> <<>>]}

InitTransport == InitWith(TransportOptions)

SpecTransport == InitTransport /\ [][NextTransport]_vars

\* lines the peer writes in a session that follows the server info
MaxInfoLines == 3

\* line shapes of that session: init frames with and without a data object,
\* a system frame of another subtype with a data object, an assistant frame
InfoLines ==
    {InitLine(0), SystemNoDataLine("init", 0), SystemLine("status", 0),
     ConvLine("assistant", 0)}

\* a session whose peer sends system frames
NextInfo ==
    \/ PeerEmit(InfoLines, MaxInfoLines)
    \/ PeerExit
    \/ MockQueueMessage(InfoLines, MaxInfoLines)
    \/ MockCloseMessages
    \/ ReaderScan
    \/ ReaderEOF
    \/ ReaderWait
    \/ ReaderCloseErrors
    \/ ReaderReturn
    \/ PumpTake
    \/ PumpInit
    \/ PumpForward
    \/ PumpExit
    \/ MessagesCall
    \/ ConsumerRecv
    \/ Connect
    \/ Close

SpecInfo == InitStream /\ [][NextInfo]_vars

(* ------------------- decoding and encoding a message ------------------- *)
\* JSON values, abstracted to what the decoders and encoding/json tell
\* apart: strings, numbers, booleans, objects, arrays of content blocks,
\* null; Absent marks a key that the object does not have
Absent == "absent"
JsonStrings == {"", "text", "id"}
JsonNumbers == {"0", "7", "7.5"}
JsonBools == {"false", "true"}
JsonObjects == {"{}", "{..}"}
\* arrays of content blocks: text blocks, a text block and a block of a type
\* parseContentBlocks has no case for, a tool_result block
JsonArrays == {"[text]", "[text,image]", "[tool_result]"}

\* v, ok := raw[key].(string)  and the like: the zero value unless the key
\* holds a value of the type asked for
AsString(v) == IF v \in JsonStrings THEN v ELSE ""
AsBool(v) == IF v \in JsonBools THEN v ELSE "false"
AsFloat(v) == IF v \in JsonNumbers THEN v ELSE "0"
\* int(f) for a float64 f
AsInt(v) == IF v = "7.5" THEN "7" ELSE AsFloat(v)
\* m, ok := raw[key].(map[string]any): a nil map unless the key holds an object
AsMap(v) == IF v \in JsonObjects THEN v ELSE "nil"

\* the frames the peer may write, one family for each conversation type;
\* message_content and message_model are the keys content and model of the
\* nested message object.  A result frame has duration_api_ms and num_turns
\* (decoded as duration_ms is) and session_id (decoded as subtype is) too.
UserFrames ==
    {[type |-> "user", message_content |-> c, uuid |-> u,
      parent_tool_use_id |-> p] :
        c \in {Absent, "", "text", "[tool_result]"}, u \in {Absent, "", "id"},
        p \in {Absent, "null", "id"}}

AssistantFrames ==
    {[type |-> "assistant", message_model |-> m, message_content |-> c,
      parent_tool_use_id |-> p, error |-> e] :
        m \in {Absent, "text"}, c \in {Absent, "[text]", "[text,image]"},
        p \in {Absent, "id"}, e \in {Absent, "text"}}

SystemFrames ==
    {[type |-> "system", subtype |-> s, data |-> d] :
        s \in {Absent, "text"}, d \in {Absent, "{}", "{..}"}}

ResultFrames ==
    {[type |-> "result", subtype |-> "text", duration_ms |-> ms,
      is_error |-> ie, total_cost_usd |-> c, usage |-> u, result |-> r,
      structured_output |-> so] :
        ms \in {"7", "7.5"}, ie \in JsonBools, c \in {Absent, "0", "7.5"},
        u \in {Absent, "{..}"}, r \in {Absent, "", "text"},
        so \in {Absent, "null", "{..}"}}

StreamEventFrames ==
    {[type |-> "stream_event", uuid |-> u, session_id |-> s, event |-> e,
      parent_tool_use_id |-> p] :
        u \in {Absent, "id"}, s \in {Absent, "id"}, e \in {Absent, "{..}"},
        p \in {Absent, "id"}}

ConversationFrames ==
    UserFrames \cup AssistantFrames \cup SystemFrames \cup ResultFrames
        \cup StreamEventFrames

\* Client.parseUserMessage: content is kept only when it is a string
parseUserMessage(raw) ==
    [kind |-> "UserMessage",
     Content |-> AsString(raw.message_content),
     UUID |-> AsString(raw.uuid),
     ParentToolUseID |-> AsString(raw.parent_tool_use_id)]

\* Client.parseContentBlocks: the slice of ContentBlock values for an array
\* of blocks; a block of a type other than text, thinking, tool_use and
\* tool_result is left out
parseContentBlocks(content) ==
    CASE content = "[text]" -> "Blocks{Text}"
      [] content = "[text,image]" -> "Blocks{Text}"
      [] content = "[tool_result]" -> "Blocks{ToolResult}"

\* Client.parseAssistantMessage
parseAssistantMessage(raw) ==
    [kind |-> "AssistantMessage",
     Model |-> AsString(raw.message_model),
     Content |-> IF raw.message_content \in JsonArrays
                 THEN parseContentBlocks(raw.message_content) ELSE "nil",
     ParentToolUseID |-> AsString(raw.parent_tool_use_id),
     Error |-> AsString(raw.error)]

\* Client.parseSystemMessage: Data starts as an empty map
parseSystemMessage(raw) ==
    [kind |-> "SystemMessage",
     Subtype |-> AsString(raw.subtype),
     Data |-> IF raw.data \in JsonObjects THEN raw.data ELSE "{}"]

\* Client.parseResultMessage
parseResultMessage(raw) ==
    [kind |-> "ResultMessage",
     Subtype |-> AsString(raw.subtype),
     DurationMS |-> AsInt(raw.duration_ms),
     IsError |-> AsBool(raw.is_error),
     TotalCostUSD |-> AsFloat(raw.total_cost_usd),
     Usage |-> AsMap(raw.usage),
     Result |-> AsString(raw.result),
     StructuredOutput |-> IF raw.structured_output \in {Absent, "null"}
                          THEN "nil" ELSE raw.structured_output]

\* Client.parseStreamEvent
parseStreamEvent(raw) ==
    [kind |-> "StreamEvent",
     UUID |-> AsString(raw.uuid),
     SessionID |-> AsString(raw.session_id),
     Event |-> AsMap(raw.event),
     ParentToolUseID |-> AsString(raw.parent_tool_use_id)]

\* Client.parseMessage on a conversation frame
DecodeFrame(raw) ==
    CASE raw.type = "user" -> parseUserMessage(raw)
      [] raw.type = "assistant" -> parseAssistantMessage(raw)
      [] raw.type = "system" -> parseSystemMessage(raw)
      [] raw.type = "result" -> parseResultMessage(raw)
      [] raw.type = "stream_event" -> parseStreamEvent(raw)

\* encoding/json on a field tagged omitempty: false, 0, a nil pointer or
\* interface, and an empty map, slice or string are left out
OmitEmpty(v) == IF v \in {"", "0", "false", "nil", "{}"} THEN Absent ELSE v

\* encoding/json on a field without omitempty: a nil map or slice is null
Plain(v) == IF v = "nil" THEN "null" ELSE v

\* encoding/json on a field of interface type tagged omitempty: only the
\* nil interface is left out
OmitNil(v) == IF v = "nil" THEN Absent ELSE v

\* json.Marshal of a slice of ContentBlock: each block is an object whose
\* key kind holds the number of its ContentBlockKind
MarshalBlocks(blocks) ==
    CASE blocks = "Blocks{Text}" -> "[kind0]"
      [] blocks = "Blocks{ToolResult}" -> "[kind3]"
      [] blocks = "nil" -> "null"

\* json.Marshal(msg), by the struct tags of the message types
Marshal(msg) ==
    CASE msg.kind = "UserMessage" ->
           [content |-> Plain(msg.Content), uuid |-> OmitEmpty(msg.UUID),
            parent_tool_use_id |-> OmitEmpty(msg.ParentToolUseID)]
      [] msg.kind = "AssistantMessage" ->
           [content |-> MarshalBlocks(msg.Content), model |-> Plain(msg.Model),
            parent_tool_use_id |-> OmitEmpty(msg.ParentToolUseID),
            error |-> OmitEmpty(msg.Error)]
      [] msg.kind = "SystemMessage" ->
           [subtype |-> Plain(msg.Subtype), data |-> Plain(msg.Data)]
      [] msg.kind = "ResultMessage" ->
           [subtype |-> Plain(msg.Subtype),
            duration_ms |-> Plain(msg.DurationMS),
            is_error |-> Plain(msg.IsError),
            total_cost_usd |-> OmitEmpty(msg.TotalCostUSD),
            usage |-> OmitEmpty(msg.Usage),
            result |-> OmitEmpty(msg.Result),
            structured_output |-> OmitNil(msg.StructuredOutput)]
      [] msg.kind = "StreamEvent" ->
           [uuid |-> Plain(msg.UUID), session_id |-> Plain(msg.SessionID),
            event |-> Plain(msg.Event),
            parent_tool_use_id |-> OmitEmpty(msg.ParentToolUseID)]

\* a frame is decoded ...
CodecDecode ==
    /\ codec.pc = "frame"
    /\ codec' = [pc |-> "decoded", frame |-> codec.frame,
                 msg |-> DecodeFrame(codec.frame)]
    /\ UNCHANGED <<cfg, sessions, readers, writing, clientVars, transportVars, peerVars, dropped,
                   pumpVars, sendLog, consumerVars, callerVars>>

\* ... and the decoded message is encoded again
CodecEncode ==
    /\ codec.pc = "decoded"
    /\ codec' = [pc |-> "encoded", frame |-> codec.frame, msg |-> codec.msg,
                 json |-> Marshal(codec.msg)]
    /\ UNCHANGED <<cfg, sessions, readers, writing, clientVars, transportVars, peerVars, dropped,
                   pumpVars, sendLog, consumerVars, callerVars>>

NextCodec == CodecDecode \/ CodecEncode

InitCodec ==
    /\ InitClient(TransportOptions)
    /\ codec \in {[pc |-> "frame", frame |-> f] : f \in ConversationFrames}

SpecCodec == InitCodec /\ [][NextCodec]_vars

\* lines the peer writes in a session whose consumer may stop reading
MaxBackpressureLines == 4

\* conversation frames that fill the outbound channel, and a hook callback
BackpressureLines ==
    {ConvLine("assistant", 0), CtlLine(0, "hook_callback", 0, "PreToolUse")}

\* a session with a registered hook whose consumer reads when it likes
NextBackpressure ==
    \/ PeerEmit(BackpressureLines, MaxBackpressureLines)
    \/ MockQueueMessage(BackpressureLines, MaxBackpressureLines)
    \/ ReaderScan
    \/ PumpTake
    \/ PumpHookReturn
    \/ PumpRespond
    \/ PumpForward
    \/ MessagesCall
    \/ ConsumerRecv
    \/ Connect
    \/ ConnectInitialize

BackpressureOptions ==
    {[mock |-> m, closeErr |-> FALSE, regs |-> <<"PreToolUse">>] :
        m \in BOOLEAN}

InitBackpressure == InitWith(BackpressureOptions)

SpecBackpressure == InitBackpressure /\ [][NextBackpressure]_vars

(* ------------------- Close while a Send is writing --------------------- *)
\* Client.Close down to its call of c.transport.Close(): c.mu is taken and
\* kept (defer c.mu.Unlock()), connected is reset
CloseBegin ==
    /\ ops < MaxOps
    /\ mu = "free"
    /\ ops' = ops + 1
    /\ IF ClientCloseIsNoop \/ transport = "nil"
       THEN /\ Returned("Close", "live", "nil")
            /\ connected' = FALSE
            /\ UNCHANGED mu
       ELSE /\ connected' = FALSE
            /\ mu' = "Close"
            /\ UNCHANGED returns
    /\ UNCHANGED <<cfg, sessions, readers, codec, writing, transport, messages, messagesCloses,
                   serverInfo, transportVars, peerVars, dropped, pumpVars,
                   sendLog, consumerVars, callerPc>>

\* ... and the transport's Close itself, which gets st.mu.Lock only when no
\* Send holds st.mu.RLock; then Client.Close returns and releases c.mu
CloseEnd ==
    /\ mu = "Close"
    /\ TransportClose
    /\ Returned("Close", "live", TransportCloseErr)
    /\ mu' = "free"
    /\ UNCHANGED <<cfg, sessions, readers, codec, writing, transport, connected, messages,
                   messagesCloses, serverInfo, peerVars, dropped, pumpVars,
                   sendLog, consumerVars, ops, callerPc>>

\* a call of Close on the transport itself that has not got st.mu yet
TransportClosing == [NoCall EXCEPT !.op = "Transport.Close"]

\* SubprocessTransport.Close is called on the ready transport by the code
\* that holds it
TransportCloseBegin ==
    /\ st_ready
    /\ callerPc = NoCall
    /\ callerPc' = TransportClosing
    /\ UNCHANGED <<cfg, sessions, readers, codec, writing, clientVars, transportVars, peerVars,
                   dropped, pumpVars, sendLog, consumerVars, ops, returns>>

\* ... gets st.mu.Lock, closes stdin, kills the process and returns
TransportCloseEnd ==
    /\ callerPc = TransportClosing
    /\ TransportClose
    /\ Returned("Transport.Close", "live", TransportCloseErr)
    /\ callerPc' = NoCall
    /\ UNCHANGED <<cfg, sessions, readers, codec, writing, clientVars, peerVars, dropped,
                   pumpVars, sendLog, consumerVars, ops>>

\* st.stdin.Write fails because the process at the other end has gone
SendFails(op) == st_cmd # "running" /\ SendEnd(op)

\* a session on a subprocess transport in which Close is called while Query
\* and Interrupt are writing; a write to a running peer returns (SendEnd)
\* when the pipe has room, which is up to the peer
NextClosing ==
    \/ Connect
    \/ PeerExit
    \/ \E op \in {"Query", "Interrupt"} : SendBegin(op)
    \/ \E op \in {"Query", "Interrupt"} : SendEnd(op)
    \/ CloseBegin
    \/ CloseEnd
    \/ TransportCloseBegin
    \/ TransportCloseEnd

ClosingOptions == {[mock |-> FALSE, closeErr |-> FALSE, regs |-> <<>>]}

InitClosing == InitWith(ClosingOptions)

SpecClosing == InitClosing /\ [][NextClosing]_vars

\* scheduling: a Close that can get the lock does, and a write to a pipe
\* whose reader has gone returns; nothing makes a running peer read its stdin
SpecClosingFair ==
    /\ SpecClosing
    /\ WF_vars(CloseEnd)
    /\ WF_vars(TransportCloseEnd)
    /\ \A op \in {"Query", "Interrupt"} : WF_vars(SendFails(op))

\* the same with a peer that keeps reading its stdin
SpecClosingDrained ==
    /\ SpecClosingFair
    /\ \A op \in {"Query", "Interrupt"} : WF_vars(SendEnd(op))

(* ------------------ Connect called again on one client ----------------- *)
\* successful Connect calls made on one client, and lines the peers write
MaxConnects == 2
MaxReconnectLines == 2

\* everything but `sessions` stays as it is
SessionsOnly ==
    UNCHANGED <<cfg, readers, codec, writing, clientVars, transportVars,
                peerVars, dropped, pumpVars, sendLog, consumerVars,
                callerVars>>

\* a transport's message channel as a pump sees it: lines buffered, "open",
\* "ended" (the process has gone, its reader has not closed the channel
\* yet) or "closed"
NewSrc == [buf |-> 0, state |-> "open"]

\* the pump goroutines that have not returned
RunningPumps ==
    {i \in 1..Len(sessions.pumps) :
        sessions.pumps[i].pc \in {"recv", "send"}}

\* a goroutine has panicked: the program has ended
SessionsPanicked ==
    \E i \in 1..Len(sessions.pumps) : sessions.pumps[i].pc = "panicked"

\* Client.Connect, whether the client is connected or not: c.transport is
\* the injected transport again or a new SubprocessTransport, then
\* c.messages = make(chan Message, 100), go c.readMessages(), connected
SessionConnect ==
    /\ ~SessionsPanicked
    /\ Len(sessions.pumps) < MaxConnects
    /\ LET srcs == IF IsMock /\ sessions.srcs # <<>>
                   THEN sessions.srcs
                   ELSE Append(sessions.srcs, NewSrc)
           made == Len(sessions.chans) + 1
       IN sessions' =
            [sessions EXCEPT
               !.conn = TRUE,
               !.srcs = srcs,
               !.chans = Append(@, [buf |-> 0, closes |-> 0]),
               !.pumps = Append(@, [pc |-> "recv", own |-> made,
                                    src |-> Len(srcs)])]
    /\ SessionsOnly

\* Client.Close: a no-op unless connected; the subprocess transport now in
\* c.transport is closed (its process killed), a mock is only marked
SessionClose ==
    /\ ~SessionsPanicked
    /\ sessions.conn
    /\ sessions' =
         [sessions EXCEPT
            !.conn = FALSE,
            !.srcs = IF IsMock THEN @
                     ELSE [@ EXCEPT ![Len(@)].state =
                             IF @ = "open" THEN "ended" ELSE @]]
    /\ SessionsOnly

\* a peer writes a line and its transport's reader offers it to the channel
SessionPeerLine(t) ==
    /\ ~SessionsPanicked
    /\ sessions.lines < MaxReconnectLines
    /\ sessions.srcs[t].state = "open"
    /\ sessions.srcs[t].buf < MsgChanCap
    /\ sessions' = [sessions EXCEPT !.lines = @ + 1, !.srcs[t].buf = @ + 1]
    /\ SessionsOnly

\* the transport's channel is closed: by SubprocessTransport.readMessages
\* once its process has gone, by the test that feeds a mock (CloseMessages)
SessionSrcClose(t) ==
    /\ ~SessionsPanicked
    /\ sessions.srcs[t].state = IF IsMock THEN "open" ELSE "ended"
    /\ sessions' = [sessions EXCEPT !.srcs[t].state = "closed"]
    /\ SessionsOnly

\* a pump: `for data := range c.transport.Messages()` takes a line
SessionPumpTake(i) ==
    /\ ~SessionsPanicked
    /\ sessions.pumps[i].pc = "recv"
    /\ sessions.srcs[sessions.pumps[i].src].buf > 0
    /\ sessions' = [sessions EXCEPT
                      !.srcs[sessions.pumps[i].src].buf = @ - 1,
                      !.pumps[i].pc = "send"]
    /\ SessionsOnly

\* a pump: `c.messages <- msg` reads the field c.messages without holding
\* c.mu while a later Connect writes it: the read yields the channel the
\* pump started with or the one a later Connect made.  A send on a closed
\* channel panics
SessionPumpSend(i) ==
    /\ ~SessionsPanicked
    /\ sessions.pumps[i].pc = "send"
    /\ \E to \in sessions.pumps[i].own..Len(sessions.chans) :
         IF sessions.chans[to].closes > 0
         THEN sessions' = [sessions EXCEPT !.pumps[i].pc = "panicked"]
         ELSE /\ sessions.chans[to].buf < OutChanCap
              /\ sessions' = [sessions EXCEPT !.chans[to].buf = @ + 1,
                                              !.pumps[i].pc = "recv"]
    /\ SessionsOnly

\* a pump: the range ends, the deferred close(c.messages) runs on the
\* channel that was in c.messages when the goroutine started
SessionPumpExit(i) ==
    /\ ~SessionsPanicked
    /\ sessions.pumps[i].pc = "recv"
    /\ sessions.srcs[sessions.pumps[i].src].buf = 0
    /\ sessions.srcs[sessions.pumps[i].src].state = "closed"
    /\ sessions' =
         [sessions EXCEPT
            !.chans[sessions.pumps[i].own].closes = @ + 1,
            !.pumps[i].pc = IF sessions.chans[sessions.pumps[i].own].closes > 0
                            THEN "panicked" ELSE "done"]
    /\ SessionsOnly

\* the application calls Messages() on the connected client and keeps what
\* it gets
SessionMessages ==
    /\ ~SessionsPanicked
    /\ sessions.conn
    /\ sessions.held = 0
    /\ sessions' = [sessions EXCEPT !.held = Len(sessions.chans)]
    /\ SessionsOnly

NextReconnect ==
    \/ SessionConnect
    \/ SessionClose
    \/ \E t \in 1..Len(sessions.srcs) : SessionPeerLine(t)
    \/ \E t \in 1..Len(sessions.srcs) : SessionSrcClose(t)
    \/ \E i \in 1..Len(sessions.pumps) : SessionPumpTake(i)
    \/ \E i \in 1..Len(sessions.pumps) : SessionPumpSend(i)
    \/ \E i \in 1..Len(sessions.pumps) : SessionPumpExit(i)
    \/ SessionMessages

ReconnectOptions ==
    {[mock |-> m, closeErr |-> FALSE, regs |-> <<>>] : m \in BOOLEAN}

SpecReconnect == InitWith(ReconnectOptions) /\ [][NextReconnect]_vars

\* the goroutines of a one-shot Query that the Go scheduler keeps running:
\* the transport's reader, the pump, Query itself and its relay (whose
\* select takes one of its ready cases).  Nothing obliges the peer or the
\* test behind a mock to write or to close, the context to be cancelled, or
\* the caller to receive.
QueryFairness ==
    /\ WF_vars(ReaderScan)
    /\ WF_vars(ReaderEOF)
    /\ WF_vars(ReaderWait)
    /\ WF_vars(ReaderCloseErrors)
    /\ WF_vars(ReaderReturn)
    /\ WF_vars(PumpTake)
    /\ WF_vars(PumpForward)
    /\ WF_vars(PumpExit)
    /\ WF_vars(QuerySend)
    /\ WF_vars(RelayMessages)
    /\ WF_vars(RelayRecv)
    /\ WF_vars(RelayRangeEnd)
    /\ WF_vars(RelaySend \/ RelayCtxDone)
    /\ WF_vars(RelayClose)
    /\ WF_vars(RelayCloseOut)

SpecQueryFair == SpecQuery /\ QueryFairness

(* ------------- Connect called again on one SubprocessTransport --------- *)
\* processes one transport starts, and lines those processes write
MaxStarts == 2
MaxRestartLines == 2

\* everything but `readers` stays as it is
ReadersOnly ==
    UNCHANGED <<cfg, sessions, codec, writing, clientVars, transportVars,
                peerVars, dropped, pumpVars, sendLog, consumerVars,
                callerVars>>

\* a channel was closed twice or sent on after its close: a goroutine has
\* panicked and the program has ended
ReadersPanicked ==
    \E ch \in {readers.messages, readers.errors} :
        ch.closes > 1 \/ ch.late > 0

\* `select { case ch <- v: default: }`: panics on a closed channel, buffers
\* the value if there is room, drops it otherwise
TrySend(ch, cap) ==
    IF ch.closes > 0
    THEN [ch EXCEPT !.late = @ + 1]
    ELSE IF ch.buf < cap THEN [ch EXCEPT !.buf = @ + 1] ELSE ch

\* close(ch): panics on a closed channel
CloseChan(ch) == [ch EXCEPT !.closes = @ + 1]

\* SubprocessTransport.Connect: a no-op while ready; otherwise a new
\* process is started, `go st.readMessages(stdoutPipe)` runs on the
\* channels made by NewSubprocessTransport, ready = true
StConnect ==
    /\ ~ReadersPanicked
    /\ ~readers.ready
    /\ Len(readers.procs) < MaxStarts
    /\ readers' =
         [readers EXCEPT
            !.ready = TRUE,
            !.procs = Append(@, "running"),
            !.rds = Append(@, [pc |-> "scan",
                               proc |-> Len(readers.procs) + 1])]
    /\ ReadersOnly

\* SubprocessTransport.Close: a no-op unless ready; ready = false, stdin is
\* closed and the process now in st.cmd is killed
StClose ==
    /\ ~ReadersPanicked
    /\ readers.ready
    /\ readers' =
         [readers EXCEPT
            !.ready = FALSE,
            !.procs[Len(readers.procs)] =
                IF @ = "running" THEN "killed" ELSE @]
    /\ ReadersOnly

\* a process exits by itself
StProcExit(p) ==
    /\ ~ReadersPanicked
    /\ readers.procs[p] = "running"
    /\ readers' = [readers EXCEPT !.procs[p] = "exited"]
    /\ ReadersOnly

\* readMessages, one turn of `for scanner.Scan()`: a line of its process
\* is offered to st.messages
StReaderScan(i) ==
    /\ ~ReadersPanicked
    /\ readers.rds[i].pc = "scan"
    /\ readers.procs[readers.rds[i].proc] = "running"
    /\ readers.lines < MaxRestartLines
    /\ readers' =
         [readers EXCEPT
            !.lines = @ + 1,
            !.messages = TrySend(@, MsgChanCap)]
    /\ ReadersOnly

\* readMessages: Scan returns false once the process has gone;
\* scanner.Err(), if any, is offered to st.errors
StReaderEOF(i) ==
    /\ ~ReadersPanicked
    /\ readers.rds[i].pc = "scan"
    /\ readers.procs[readers.rds[i].proc] # "running"
    /\ \E failed \in BOOLEAN :
         readers' =
           [readers EXCEPT
              !.rds[i].pc = "wait",
              !.errors = IF failed THEN TrySend(@, ErrChanCap) ELSE @]
    /\ ReadersOnly

\* readMessages: st.cmd.Wait() on the command st.cmd holds when it is read
\* (its own, or one a later Connect has stored); the error of a killed or
\* failed process is offered to st.errors
StReaderWait(i) ==
    /\ ~ReadersPanicked
    /\ readers.rds[i].pc = "wait"
    /\ \E p \in readers.rds[i].proc..Len(readers.procs),
          failed \in BOOLEAN :
         /\ readers.procs[p] # "running"
         /\ readers.procs[p] = "killed" => failed
         /\ readers' =
              [readers EXCEPT
                 !.rds[i].pc = "closeErrors",
                 !.errors = IF failed THEN TrySend(@, ErrChanCap) ELSE @]
    /\ ReadersOnly

\* readMessages: close(st.errors)
StReaderCloseErrors(i) ==
    /\ ~ReadersPanicked
    /\ readers.rds[i].pc = "closeErrors"
    /\ readers' =
         [readers EXCEPT
            !.rds[i].pc = "closeMessages",
            !.errors = CloseChan(@)]
    /\ ReadersOnly

\* readMessages returns: the deferred close(st.messages)
StReaderCloseMessages(i) ==
    /\ ~ReadersPanicked
    /\ readers.rds[i].pc = "closeMessages"
    /\ readers' =
         [readers EXCEPT
            !.rds[i].pc = "done",
            !.messages = CloseChan(@)]
    /\ ReadersOnly

\* a receive from st.Messages()
StRecvMessage ==
    /\ ~ReadersPanicked
    /\ readers.messages.buf > 0
    /\ readers' = [readers EXCEPT !.messages.buf = @ - 1]
    /\ ReadersOnly

\* a receive from st.Errors()
StRecvError ==
    /\ ~ReadersPanicked
    /\ readers.errors.buf > 0
    /\ readers' = [readers EXCEPT !.errors.buf = @ - 1]
    /\ ReadersOnly

NextRestart ==
    \/ StConnect
    \/ StClose
    \/ \E p \in 1..Len(readers.procs) : StProcExit(p)
    \/ \E i \in 1..Len(readers.rds) : StReaderScan(i)
    \/ \E i \in 1..Len(readers.rds) : StReaderEOF(i)
    \/ \E i \in 1..Len(readers.rds) : StReaderWait(i)
    \/ \E i \in 1..Len(readers.rds) : StReaderCloseErrors(i)
    \/ \E i \in 1..Len(readers.rds) : StReaderCloseMessages(i)
    \/ StRecvMessage
    \/ StRecvError

RestartOptions == {[mock |-> FALSE, closeErr |-> FALSE, regs |-> <<>>]}

SpecRestart == InitWith(RestartOptions) /\ [][NextRestart]_vars

(* ----------------------- registering hooks ----------------------------- *)
\* With<Event>Hook options applied to one config
MaxRegistrations == 3

\* NewClient applying one more With<Event>Hook option to cfg, before it
\* returns the client
RegisterHook(event) ==
    /\ transport = "nil"
    /\ pumpPc = "none"
    /\ ops = 0
    /\ cfg.nextCallbackID < MaxRegistrations
    /\ cfg' = WithHook(cfg, event)
    /\ UNCHANGED <<sessions, readers, codec, writing, clientVars,
                   transportVars, peerVars, dropped, pumpVars, sendLog,
                   consumerVars, callerVars>>

\* sendInitialize: the hooks object of the initialize request, one entry
\* per event that has matchers, each matcher's callback ids in the order of
\* c.cfg.hooks[event]
hookDefs(c) ==
    [e \in {ev \in HookEvents : c.hooks[ev] # <<>>} |->
        [i \in 1..Len(c.hooks[e]) |->
            [hookCallbackIds |-> c.hooks[e][i].callbackIDs]]]

NextRegistration ==
    \/ \E event \in HookEvents : RegisterHook(event)
    \/ PeerExit
    \/ Connect
    \/ ConnectInitialize
    \/ Close

RegistrationOptions ==
    {[mock |-> m, closeErr |-> FALSE, regs |-> <<>>] : m \in BOOLEAN}

SpecRegistration ==
    InitWith(RegistrationOptions) /\ [][NextRegistration]_vars

(* ------------------------------ claims --------------------------------- *)
\* a step in which the application calls op with context ctx
Calls(op, ctx) ==
    /\ ops' = ops + 1
    /\ \/ callerPc' # callerPc /\ callerPc'.op = op /\ callerPc'.ctx = ctx
       \/ /\ returns' # returns
          /\ Last(returns').op = op
          /\ Last(returns').ctx = ctx

\* C6: Query, Interrupt, SetPermissionMode and SetModel, called with a live
\* context on a client that is not connected (never connected, closed, or
\* left unconnected by a failed initialize), return ErrNotConnected at once:
\* the call does not go on to Transport.Send, so nothing is written.
C6_NotConnectedGuard ==
    [][\A op \in SendOps :
         (Calls(op, "live") /\ ~connected)
           => /\ returns' = Append(returns, [op |-> op, ctx |-> "live",
                                             err |-> "ErrNotConnected"])
              /\ callerPc' = NoCall
              /\ sendLog' = sendLog]_vars

\* all four operations have been refused, on a client that was connected
\* and then closed, and no operation has handed a frame to the transport
C6_Witness ==
    /\ pumpPc # "none"
    /\ ~connected
    /\ returns # <<>>
    /\ Last(returns).err = "ErrNotConnected"
    /\ Last(returns).op = "SetModel"
    /\ \A i \in 1..Len(sendLog) : sendLog[i].by \notin SendOps

\* a step in which op returns
Returns(op) == returns' # returns /\ Last(returns').op = op

\* C7: after Client.Close IsConnected is false and after
\* SubprocessTransport.Close IsReady is false; a Close on a client that is
\* not connected, or on a subprocess transport that is not ready, returns
\* nil and changes nothing; stdin is closed and the process killed at most
\* once; a Client.Close that follows another one, with no Connect in
\* between, returns nil whatever the earlier one returned.
C7_CloseIdempotent ==
    /\ [](stdinCloses <= 1 /\ kills <= 1)
    /\ [](\A i, j \in 1..Len(returns) :
            (/\ i < j
             /\ returns[i].op = "Close"
             /\ returns[j].op = "Close"
             /\ \A k \in i..j : returns[k].op # "Connect")
               => returns[j].err = "nil")
    /\ [][/\ Returns("Close") => ~connected'
          /\ Returns("Transport.Close") => ~st_ready'
          /\ (Returns("Close") /\ ~connected)
               => /\ Last(returns').err = "nil"
                  /\ UNCHANGED <<clientVars, transportVars, sendLog>>
          /\ (Returns("Transport.Close") /\ ~IsMock /\ ~st_ready)
               => /\ Last(returns').err = "nil"
                  /\ UNCHANGED <<clientVars, transportVars, sendLog>>]_vars

\* Close was called twice on a client whose process had been started: the
\* second call returned and stdin was closed once, the process killed once
C7_Witness ==
    /\ Len(returns) = 3
    /\ returns[1].op = "Connect" /\ returns[1].err = "nil"
    /\ returns[2].op = returns[3].op
    /\ returns[3].op \in {"Close", "Transport.Close"}
    /\ returns[3].err = "nil"
    /\ stdinCloses = 1
    /\ kills = 1

\* the Send calls that carry a control_response for the request n
ResponsesTo(n) ==
    {i \in 1..Len(sendLog) :
        /\ sendLog[i].frame.type = "control_response"
        /\ sendLog[i].frame.request_id = n}

\* the pump is through with the request n (it is neither in the hook nor
\* about to send the response)
Done(n) == ~(pumpCur.n = n /\ pumpPc \in {"hook", "respond"})

\* C1: once the pump is through with a hook_callback frame whose callback id
\* is bound to a registered pre-tool-use hook that was invoked and returned,
\* exactly one control_response carrying the frame's request_id has been
\* handed to the transport (the pump takes the next line only after that).
C1_OneResponsePerPreToolUse ==
    \A k \in 1..Len(hookLog) :
       LET h == hookLog[k] IN
         (h.how = "invoke" /\ h.line.event = "PreToolUse" /\ Done(h.line.n))
            => Cardinality(ResponsesTo(h.line.n)) = 1

\* C2: once the pump is through with any hook_callback request, exactly one
\* control_response for it has been handed to the transport.
C2_EveryCallbackAnswered ==
    \A k \in 1..Len(hookLog) :
       Done(hookLog[k].line.n)
          => Cardinality(ResponsesTo(hookLog[k].line.n)) = 1

\* the empty-but-continue payload: continue=true and nothing else
IsFailOpen(frame) ==
    /\ frame.type = "control_response"
    /\ frame.subtype = "success"
    /\ frame.response.Continue
    /\ ~frame.response.HookSpecificOutput.present
    /\ frame.response.StopReason = ""
    /\ frame.response.SystemMessage = ""
    /\ frame.response.Reason = ""

\* C3: when an invoked hook returned an error or a nil output, the pump
\* hands the transport one response for that request, and it is a success
\* envelope with continue=true and no hookSpecificOutput, whatever output
\* came with the error.
C3_FailOpen ==
    \A k \in 1..Len(hookLog) :
       LET h == hookLog[k] IN
         (h.how = "invoke" /\ (h.err \/ h.output.isNil))
            => /\ \A i \in ResponsesTo(h.line.n) : IsFailOpen(sendLog[i].frame)
               /\ Done(h.line.n) => Cardinality(ResponsesTo(h.line.n)) = 1

\* a hook returned an error together with a deny decision, and the response
\* for its request reached the peer
C3_Witness ==
    \E k \in 1..Len(hookLog) :
       /\ hookLog[k].how = "invoke"
       /\ hookLog[k].err
       /\ hookLog[k].output.Decision = "deny"
       /\ \E i \in ResponsesTo(hookLog[k].line.n) : sendLog[i].err = "nil"

\* C5: what the consumer has received from Messages() is in the order in
\* which the peer wrote it (n is the position of the line in the peer's
\* output): positions strictly increase, so nothing is received twice or out
\* of order, and only conversation messages are received.
C5_DeliveredInOrder ==
    /\ \A i, j \in 1..Len(received) :
          i < j => received[i].n < received[j].n
    /\ \A i \in 1..Len(received) :
          /\ received[i].type \in ConversationTypes
          /\ received[i].n \in 1..emitted

\* the consumer has received three messages while the client was connected
C5_Witness ==
    /\ Len(received) = 3
    /\ connected

\* a step of the reader's scan loop on a non-empty line
ScansLine ==
    /\ readerPc = "scan"
    /\ stdout # <<>>
    /\ stdout' = Tail(stdout)
    /\ Head(stdout).type # "empty"

\* C8: the reader's scan step is enabled whenever a line is waiting, full
\* channel or not; when the channel is full the scanned line is discarded,
\* the buffered lines stay as they are, and the reader stays in its loop.
C8_ReaderDropsNewest ==
    /\ []((readerPc = "scan" /\ stdout # <<>>) => ENABLED ReaderScan)
    /\ [][(ScansLine /\ ChanFull(st_messages, MsgChanCap))
            => /\ st_messages' = st_messages
               /\ readerPc' = "scan"
               /\ dropped' = Append(dropped, Head(stdout))]_vars

\* a line was discarded on a full channel, the line buffered before it is
\* still there or was taken by the pump, and a later line got through
C8_Witness ==
    /\ dropped # <<>>
    /\ \E i \in 1..Len(taken) : taken[i].n < dropped[1].n
    /\ \E i \in 1..Len(taken) : taken[i].n > dropped[1].n

\* the conversation messages the pump has handed on, in order
Forwarded == received \o messages.buf

ClosedAfterConnect ==
    /\ ~IsMock
    /\ pumpPc # "none"
    /\ \E i, j \in 1..Len(returns) :
          /\ i < j
          /\ returns[i].op = "Connect"
          /\ returns[i].err = "nil"
          /\ returns[j].op = "Close"

\* C9: after Client.Close on a connected client the pump eventually sees the
\* transport's channel closed, exits and closes the outbound channel.
C9_PumpExitsAfterClose ==
    ClosedAfterConnect ~> (pumpPc = "done" /\ messages.closed)

\* what the one-shot Query has delivered: received by its caller or buffered
\* in the returned channel
Delivered == yielded \o out.buf

HookStarts == pumpPc # "hook" /\ pumpPc' = "hook"

\* C12: the pump does not start a hook until every hook it started before has
\* returned and the response to its request has been handed to the transport.
C12_OneHookAtATime ==
    [][HookStarts =>
         \A k \in 1..Len(hookLog) :
            hookLog[k].how = "invoke"
               => Cardinality(ResponsesTo(hookLog[k].line.n)) = 1]_vars

\* at most one hook runs at a time and a hook starts only when the handling
\* of every earlier request is over (response sent or given up)
HooksDoNotOverlap ==
    [][HookStarts =>
         /\ pumpPc = "recv"
         /\ \A k \in 1..Len(hookLog) : hookLog[k].line.n < pumpCur'.n]_vars

\* the Send calls that carried an initialize control request
Initializes ==
    {i \in 1..Len(sendLog) : sendLog[i].frame.subtype = "initialize"}

\* Connect got past transport.Connect and has returned
ConnectReturned ==
    \E i \in 1..Len(returns) :
       returns[i].op = "Connect" /\ returns[i].err \notin {"ctx", "connect"}

\* C13: without hooks no initialize request is ever sent; with hooks a Connect
\* that connected the transport sends exactly one, made by Connect, and it is
\* the first frame handed to the transport, ahead of every Query, control
\* request and hook response.
C13_InitializeOnceAndFirst ==
    /\ ~HasHooks(cfg) => Initializes = {}
    /\ HasHooks(cfg) =>
          /\ Initializes \subseteq {1}
          /\ sendLog # <<>> => (1 \in Initializes /\ sendLog[1].by = "Connect")
          /\ ConnectReturned => Initializes = {1}

\* with a hook registered the initialize request went out first, and a hook
\* response and a Query followed it
C13_Witness ==
    /\ HasHooks(cfg)
    /\ Len(sendLog) >= 3
    /\ sendLog[1].frame.subtype = "initialize"
    /\ \E i \in 2..Len(sendLog) : sendLog[i].by = "pump"
    /\ \E i \in 2..Len(sendLog) : sendLog[i].by = "Query"

\* Connect has just returned the error of a failed initialize request
InitializeFailed ==
    /\ Returns("Connect")
    /\ Last(returns').err \notin {"nil", "ctx", "connect"}

\* the last Connect to return failed on its initialize request
LastConnectFailedInit ==
    \E i \in 1..Len(returns) :
       /\ returns[i].op = "Connect"
       /\ returns[i].err \notin {"nil", "ctx", "connect"}
       /\ \A j \in (i+1)..Len(returns) : returns[j].op # "Connect"

\* C14: when the initialize request cannot be sent, Connect returns the
\* error Send gave, and leaves the client not connected (Messages() is nil,
\* Query answers ErrNotConnected) and the transport closed: not ready, stdin
\* closed, the subprocess killed if it was still running.
C14_InitFailureUndoesConnect ==
    /\ [][InitializeFailed =>
            /\ Last(sendLog').frame.subtype = "initialize"
            /\ Last(sendLog').err = Last(returns').err
            /\ ~connected'
            /\ ClientMessages'.isNil
            /\ OpGuard("Query", "live", connected') = "ErrNotConnected"
            /\ ~st_ready'
            /\ st_stdin' = "nil"
            /\ st_cmd' # "running"
            /\ stdinCloses' = stdinCloses + 1
            /\ kills' = kills + 1]_vars
    /\ [](LastConnectFailedInit => (~connected /\ ~st_ready))

\* Connect failed on its initialize request and a later Query was refused
C14_Witness ==
    /\ ~connected
    /\ \E i, j \in 1..Len(returns) :
          /\ i < j
          /\ returns[i].op = "Connect"
          /\ returns[i].err = "EPIPE"
          /\ returns[j].op = "Query"
          /\ returns[j].ctx = "live"
          /\ returns[j].err = "ErrNotConnected"

\* the control-request senders that take a context
ControlSenders == {"Interrupt", "SetPermissionMode", "SetModel"}

\* C15: a control-request sender called with a cancelled context returns the
\* context's error (or ErrNotConnected) and nothing is written to the peer.
C15_CancelledSendersRefuse ==
    [][\A op \in ControlSenders :
          (Returns(op) /\ Last(returns').ctx = "cancelled")
             => /\ Last(returns').err \in {"ctx", "ErrNotConnected"}
                /\ Written' = Written]_vars

\* C16: Connect with a cancelled context returns the context's error and
\* leaves the client, the transport and the pump as they were; Query with a
\* cancelled context returns the context's error and hands nothing to the
\* transport.
C16_CancelledBeforeWork ==
    [][/\ (Returns("Connect") /\ Last(returns').ctx = "cancelled")
            => /\ Last(returns').err = "ctx"
               /\ UNCHANGED <<clientVars, transportVars, pumpVars, sendLog>>
       /\ (Returns("Query") /\ Last(returns').ctx = "cancelled")
            => /\ Last(returns').err = "ctx"
               /\ UNCHANGED sendLog]_vars

\* Connect was refused for its cancelled context, a second Connect went
\* through, and a Query with a cancelled context was refused on the
\* connected client, nothing having been sent
C16_Witness ==
    /\ Len(returns) = 3
    /\ returns[1] = [op |-> "Connect", ctx |-> "cancelled", err |-> "ctx"]
    /\ returns[2] = [op |-> "Connect", ctx |-> "live", err |-> "nil"]
    /\ returns[3] = [op |-> "Query", ctx |-> "cancelled", err |-> "ctx"]
    /\ connected
    /\ sendLog = <<>>

\* the pump takes the next line from the transport's channel
PumpTakes ==
    /\ pumpPc = "recv"
    /\ st_messages.buf # <<>>
    /\ st_messages'.buf = Tail(st_messages.buf)

\* the message the pump has decoded and not yet forwarded
InHand == IF pumpPc \in {"init", "forward"} THEN <<pumpCur>> ELSE <<>>

\* C17: a line of an unrecognized type, or one that is not a JSON object, is
\* taken by the pump and leaves everything else as it was: no message, no
\* error, nothing sent, the pump back at its loop; a conversation frame is
\* decoded and queued behind the ones before it, so the frames around a
\* skipped line reach the consumer in order.
C17_UnknownLinesSkipped ==
    /\ [][PumpTakes =>
            LET line == Head(st_messages.buf) IN
              /\ line.type \in {"bogus", "malformed"}
                   => /\ pumpPc' = "recv"
                      /\ UNCHANGED <<messages, taken, sendLog, st_errors,
                                     received, hookLog>>
              /\ line.type \in ConversationTypes
                   => taken' = Append(taken, line)]_vars
    /\ [](Forwarded \o InHand = taken)

\* three lines were queued, none was dropped by the transport, and the
\* consumer received the first and the third: the second was skipped
C17_Witness ==
    /\ IsMock
    /\ emitted = 3
    /\ dropped = <<>>
    /\ Len(received) = 2
    /\ received[1].n = 1
    /\ received[2].n = 3

\* the hook whose response the pump is about to send: its log entry
Answering == Last(hookLog)

\* C18: the response built from a hook's output (no error) carries a decision
\* sub-object exactly when the output set a decision; the sub-object names
\* the event of the hook and repeats the decision; its reason field is the
\* output's reason for deny and empty otherwise; continue is true unless the
\* output overrides it.  So a PreToolUse hook returning decision=deny with a
\* reason (and nothing else) is answered with continue=true and
\* {PreToolUse, "deny", reason}, and that is the response sent.
C18_DenyResponse ==
    /\ (pumpPc = "respond" /\ hookLog # <<>> /\ Answering.how = "invoke"
        /\ ~Answering.err /\ ~Answering.output.isNil)
         => LET o == Answering.output
                r == pumpResp
                d == r.HookSpecificOutput
            IN /\ d.present <=> o.Decision # ""
               /\ d.present => /\ d.HookEventName = Answering.line.event
                               /\ d.PermissionDecision = o.Decision
               /\ d.PermissionDecisionReason =
                     IF o.Decision = "deny" THEN o.Reason ELSE ""
               /\ r.Continue <=> o.Continue # "false"
               /\ (o.Decision = "deny" /\ o.Continue = "nil"
                   /\ Answering.line.event = "PreToolUse")
                    => /\ r.Continue
                       /\ d.present
                       /\ d.HookEventName = "PreToolUse"
                       /\ d.PermissionDecision = "deny"
                       /\ d.PermissionDecisionReason = o.Reason
    /\ \A k \in 1..Len(hookLog) :
          LET h == hookLog[k] IN
            (h.how = "invoke" /\ ~h.err /\ ~h.output.isNil)
               => \A i \in ResponsesTo(h.line.n) :
                     sendLog[i].frame.response =
                        buildHookResponse(h.output, h.err, h.line.event)

\* a PreToolUse hook returned deny with a reason and the response was sent
C18_Witness ==
    \E i \in 1..Len(sendLog) :
       /\ sendLog[i].frame.type = "control_response"
       /\ sendLog[i].frame.response.Continue
       /\ sendLog[i].frame.response.HookSpecificOutput.present
       /\ sendLog[i].frame.response.HookSpecificOutput.HookEventName
             = "PreToolUse"
       /\ sendLog[i].frame.response.HookSpecificOutput.PermissionDecision
             = "deny"
       /\ sendLog[i].frame.response.HookSpecificOutput.PermissionDecisionReason
             = "why"

\* C19: after a hook panics the pump is still running and the request is
\* answered with one continue=true response.
C19_PanicFailsOpen ==
    \A k \in 1..Len(hookLog) :
       hookLog[k].how = "panic"
          => /\ pumpPc # "panicked"
             /\ Done(hookLog[k].line.n)
                  => /\ Cardinality(ResponsesTo(hookLog[k].line.n)) = 1
                     /\ \A i \in ResponsesTo(hookLog[k].line.n) :
                           IsFailOpen(sendLog[i].frame)

\* the hook for request n was started on a connected client and returned
\* after the client had been closed
ClosedWhileRunning(n) ==
    \E i, j \in 1..Len(hookLog) :
       /\ hookLog[i].line.n = n
       /\ hookLog[i].how = "start"
       /\ ~hookLog[i].closed
       /\ hookLog[j].line.n = n
       /\ hookLog[j].how = "invoke"
       /\ hookLog[j].closed

\* C20: a hook that was running when the client was closed returns, and the
\* response to its request is handed to the transport.
C20_HookOutlivesClose ==
    \A n \in 1..emitted :
       (ClosedWhileRunning(n) /\ Done(n))
          => Cardinality(ResponsesTo(n)) = 1

\* the request names a registered callback id together with the event the
\* callback was registered for
Matching(line) ==
    /\ line.subtype = "hook_callback"
    /\ line.cb \in DOMAIN cfg.hookCallbacks
    /\ cfg.hookCallbacks[line.cb] = line.event

\* the calls of a registered function made for the request n
InvocationsOf(n) ==
    {k \in 1..Len(hookLog) :
        hookLog[k].line.n = n /\ hookLog[k].how = "start"}

\* C21: for each of the six registration options, a hook_callback that names
\* the registered callback id and the matching event has the registered
\* function invoked exactly once for that request.
C21_RegisteredHookInvokedOnce ==
    \A k \in 1..Len(hookLog) :
       Matching(hookLog[k].line)
          => Cardinality(InvocationsOf(hookLog[k].line.n)) = 1

\* what the code does: the functions registered for PreToolUse and
\* PostToolUse are invoked exactly once for a matching request, the
\* functions registered for the other four events never
ToolHooksInvokedOnce ==
    \A k \in 1..Len(hookLog) :
       Matching(hookLog[k].line)
          => Cardinality(InvocationsOf(hookLog[k].line.n)) =
                IF hookLog[k].line.event \in {"PreToolUse", "PostToolUse"}
                THEN 1 ELSE 0

\* the errors waiting in the transport's error channel
PendingErrors == {st_errors.buf[i] : i \in 1..Len(st_errors.buf)}

\* the reader is past st.cmd.Wait()
Waited == readerPc \in {"closeErrors", "return", "done"}

\* C22: the transport's error channel is closed only after its message
\* channel has been closed and the subprocess has been waited on, and the
\* process-exit error is on the error channel only after the message channel
\* has closed.
C22_ErrorsCloseAfterMessages ==
    /\ st_errors.closed => (st_messages.closed /\ Waited)
    /\ "exit" \in PendingErrors => st_messages.closed

\* what the code does: the close of the message channel is deferred, so it
\* comes last, after the wait, the exit error and the close of the error
\* channel
MessagesCloseAfterErrors ==
    /\ st_errors.closed => Waited
    /\ "exit" \in PendingErrors => Waited
    /\ ~IsMock => (st_messages.closed => st_errors.closed)

\* the reader comes upon a line that does not fit its buffer
ReaderMeetsLongLine ==
    /\ readerPc = "scan"
    /\ stdout # <<>>
    /\ Head(stdout).type = "toolong"
    /\ readerPc' # readerPc \/ stdout' = Tail(stdout)

\* C23: a line longer than the scan buffer is offered as an error to the
\* transport's error channel and only that line is skipped: the reader stays
\* in its scan loop with the lines after it still to be scanned, and the
\* message channel is left as it was, open.
C23_TooLongLineSkipped ==
    [][ReaderMeetsLongLine =>
         /\ st_errors' = ChanOffer(st_errors, "ErrTooLong", ErrChanCap)
         /\ readerPc' = "scan"
         /\ stdout' = Tail(stdout)
         /\ st_messages' = st_messages
         /\ ~st_messages'.closed]_vars

\* what the code does: the too-long line ends the scan loop; the lines
\* behind it are never scanned, and the message channel is closed once the
\* subprocess has been waited on
TooLongLineEndsReader ==
    /\ [][ReaderMeetsLongLine =>
            /\ st_errors' = ChanOffer(st_errors, "ErrTooLong", ErrChanCap)
            /\ readerPc' = "wait"
            /\ stdout' = stdout]_vars
    /\ [][(readerPc # "scan" /\ stdout # <<>> /\ Head(stdout).type = "toolong")
            => Head(stdout') = Head(stdout)]_vars

\* the one-shot Query got as far as connecting its client
QueryConnected == pumpPc # "none"

\* the client of the one-shot Query and its transport are closed
QueryClientClosed ==
    /\ ~connected
    /\ ~st_ready
    /\ ~IsMock => (st_stdin = "nil" /\ st_cmd # "running" /\ stdinCloses = 1
                   /\ kills = 1)

\* C24: once the one-shot Query has connected its client, however it ends
\* (the prompt could not be sent; or the relay ended, on a Result, on the end
\* of the stream or on cancellation) the client and its transport are closed;
\* the returned channel is closed by the relay's last step, once, after the
\* client was closed, and no channel exists when Query returned an error.
C24_QueryClosesEverything ==
    /\ []((relayPc = "failed" /\ QueryConnected)
             => (QueryClientClosed /\ out.isNil))
    /\ [](relayPc = "done" => (QueryClientClosed /\ out.closed))
    /\ [](relayPc = "closeOut" => QueryClientClosed)
    /\ [](out.closed => relayPc = "done")
    /\ [][(relayPc = "closeOut" /\ relayPc' # relayPc)
            => (~out.closed /\ out'.closed /\ relayPc' = "done")]_vars
    /\ [][out.closed => out'.closed]_vars

\* the relay had a message in hand when it saw the cancelled context: it
\* dropped the message, closed the client (the subprocess was killed) and
\* closed the returned channel
C24_Witness ==
    /\ ~IsMock
    /\ relayPc = "done"
    /\ ctxDone
    /\ relayCur.n > 0
    /\ \A i \in 1..Len(Delivered) : Delivered[i].n # relayCur.n
    /\ QueryClientClosed
    /\ out.closed

\* the ResultMessages among the messages the caller has received
ResultsYielded == {k \in 1..Len(yielded) : yielded[k].type = "result"}

\* C25: when QueryResult returns from its loop the returned channel is closed
\* and drained; it then returns the Result message if one was relayed, with
\* a nil error, and a nil result with ErrNoResult if none was.
C25_QueryResultOrErrNoResult ==
    \A i \in 1..Len(returns) :
       (returns[i].op = "QueryResult" /\ ~out.isNil)
          => /\ out.closed
             /\ out.buf = <<>>
             /\ IF ResultsYielded = {}
                THEN returns[i].err = "ErrNoResult" /\ returns[i].result = 0
                ELSE /\ returns[i].err = "nil"
                     /\ \E k \in ResultsYielded :
                           returns[i].result = yielded[k].n

\* the stream ended after an assistant message and no result: QueryResult
\* returned ErrNoResult
C25_Witness ==
    /\ QueryResultReturned
    /\ Last(returns).err = "ErrNoResult"
    /\ Last(returns).result = 0
    /\ yielded # <<>>
    /\ out.closed

\* C26: Messages() returns a non-nil channel exactly when the client is
\* connected: nil as long as no Connect has got past the transport's Connect,
\* nil once a Connect has returned an error, nil once Close has returned.
C26_MessagesNilIffNotConnected ==
    /\ [](ClientMessages.isNil <=> ~connected)
    /\ [](pumpPc = "none" => ClientMessages.isNil)
    /\ [][(Returns("Connect") /\ Last(returns').err # "nil")
            => ClientMessages'.isNil]_vars
    /\ [][Returns("Close") => ClientMessages'.isNil]_vars

\* a client was connected and then closed: its channel exists, and
\* Messages() no longer hands it out
C26_Witness ==
    /\ Len(returns) = 2
    /\ returns[1].op = "Connect" /\ returns[1].err = "nil"
    /\ returns[2].op = "Close"
    /\ ~connected
    /\ ~messages.isNil
    /\ ClientMessages.isNil

\* C27: SubprocessTransport.Connect called on a transport that is ready
\* returns nil and changes nothing: the subprocess, the reader, the pipes and
\* the channels are what they were, and so is everything outside the
\* transport.
C27_ConnectWhenReadyIsNoop ==
    [][(Returns("Transport.Connect") /\ st_ready)
         => /\ Last(returns').err = "nil"
            /\ UNCHANGED <<transportVars, peerVars, dropped, clientVars,
                           pumpVars, sendLog>>]_vars

\* Connect was called twice on the transport and the subprocess has exited
\* since, its reader finished: the transport is still ready, with the one
\* subprocess and the one reader it started
C27_Witness ==
    /\ Len(returns) >= 2
    /\ returns[1] = [op |-> "Transport.Connect", ctx |-> "live", err |-> "nil"]
    /\ Last(returns) = returns[1]
    /\ st_ready
    /\ st_cmd = "exited"
    /\ readerPc = "done"

\* what GetServerInfo returns: c.serverInfo, 0 standing for nil and k for
\* the data object of the k-th line of the peer's output
GetServerInfo == serverInfo

\* the conversation frames the pump has decoded: those it took, less the one
\* whose decoding is still to store the server info
Decoded ==
    IF pumpPc = "init" THEN SubSeq(taken, 1, Len(taken) - 1) ELSE taken

\* the data object of a frame: its position in the peer's output, 0 standing
\* for a frame that has none
Payload(line) == IF line.hasData THEN line.n ELSE 0

IsInit(line) == line.type = "system" /\ line.subtype = "init"

\* the data object of the last of the frames of msgs at the positions S, 0
\* if there is no such frame
LastOf(msgs, S) ==
    IF S = {} THEN 0
    ELSE Payload(msgs[CHOOSE k \in S : \A j \in S : j <= k])

\* the positions of the init frames among the decoded frames, and of those
\* that carry a data object
InitFrames == {k \in 1..Len(Decoded) : IsInit(Decoded[k])}
InitFramesWithData == {k \in InitFrames : Decoded[k].hasData}

\* C28 as stated: GetServerInfo returns nothing until an init frame has been
\* decoded and from then on the payload of the most recently decoded init
\* frame.
C28_LastInitFrame == GetServerInfo = LastOf(Decoded, InitFrames)

\* C28 (amended): GetServerInfo returns nothing until an init frame with a
\* data object has been decoded, and from then on the data object of the most
\* recently decoded init frame that had one; an init frame without a data
\* object, a frame of any other type or subtype, and Close leave the snapshot
\* as it is: it changes only as the pump decodes an init frame with data.
C28_LastInitFrameWithData ==
    /\ [](GetServerInfo = LastOf(Decoded, InitFramesWithData))
    /\ [][GetServerInfo' # GetServerInfo
            => /\ pumpPc = "init"
               /\ IsInit(pumpCur)
               /\ pumpCur.hasData
               /\ GetServerInfo' = pumpCur.n]_vars
    /\ [][Returns("Close") => GetServerInfo' = GetServerInfo]_vars

\* an init frame with data was decoded, then a system frame of another
\* subtype with data, then the client was closed: the snapshot is still the
\* data of the init frame
C28_Witness ==
    /\ Len(Decoded) >= 2
    /\ IsInit(Decoded[1]) /\ Decoded[1].hasData
    /\ Decoded[2].type = "system" /\ Decoded[2].subtype = "status"
    /\ GetServerInfo = Decoded[1].n
    /\ returns # <<>>
    /\ Last(returns).op = "Close"

\* a key of a frame is populated: it is there and holds something other
\* than null, an empty string or object, zero or false
Populated(v) == v \notin {Absent, "null", "", "0", "false", "{}"}

\* the key under which the encoded message has what the frame has under k
OutKey(k) ==
    CASE k = "message_content" -> "content"
      [] k = "message_model" -> "model"
      [] OTHER -> k

\* the value of a frame as the message types write it: an array of content
\* blocks has each block's type as the number of its kind (a block of a type
\* without a kind has no such form), anything else is written as it is
AsWritten(v) ==
    CASE v = "[text]" -> "[kind0]"
      [] v = "[tool_result]" -> "[kind3]"
      [] v = "[text,image]" -> "[kind0,image]"
      [] OTHER -> v

\* the keys of the message types that are tagged omitempty
OptionalKeys(type) ==
    CASE type = "user" -> {"uuid", "parent_tool_use_id"}
      [] type = "assistant" -> {"parent_tool_use_id", "error"}
      [] type = "system" -> {}
      [] type = "result" ->
           {"total_cost_usd", "usage", "result", "structured_output"}
      [] type = "stream_event" -> {"parent_tool_use_id"}

\* the encoded message has the key k of the frame, with the frame's value
Kept(frame, json, k) ==
    OutKey(k) \in DOMAIN json /\ json[OutKey(k)] = AsWritten(frame[k])

Preserved(frame, json) ==
    \A k \in DOMAIN frame \ {"type"} :
       Populated(frame[k]) => Kept(frame, json, k)

OmittedStayOmitted(frame, json) ==
    \A k \in OptionalKeys(frame.type) :
       frame[k] = Absent => json[OutKey(k)] = Absent

\* C29: for each of the five conversation frame shapes, the decoded message
\* encoded again has every populated key of the frame with its value, and
\* has none of the optional keys the frame left out.
C29_RoundTripLossless ==
    codec.pc = "encoded"
       => /\ Preserved(codec.frame, codec.json)
          /\ OmittedStayOmitted(codec.frame, codec.json)

\* what the code does: optional keys left out stay out for all five shapes;
\* what is populated comes back for system and stream_event frames, and for
\* result frames up to the truncation of a fractional duration; a user frame
\* loses a content that is not a string, an assistant frame the content
\* blocks of a type the decoder does not know
RoundTripAsDecoded ==
    codec.pc = "encoded"
       => LET frame == codec.frame
              json == codec.json
          IN /\ OmittedStayOmitted(frame, json)
             /\ \A k \in DOMAIN frame \ {"type"} :
                   Populated(frame[k]) =>
                      \/ Kept(frame, json, k)
                      \/ /\ frame.type = "user"
                         /\ k = "message_content"
                         /\ frame[k] \in JsonArrays
                         /\ json.content = ""
                      \/ /\ frame.type = "assistant"
                         /\ frame[k] = "[text,image]"
                         /\ json.content = "[kind0]"
                      \/ /\ frame.type = "result"
                         /\ k = "duration_ms"
                         /\ frame[k] = "7.5"
                         /\ json.duration_ms = "7"

\* a user frame whose content is an array of blocks comes back with an
\* empty content
UserBlocksLost ==
    /\ codec.pc = "encoded"
    /\ codec.frame.type = "user"
    /\ codec.frame.message_content = "[tool_result]"
    /\ codec.json.content = ""

\* a control_request that handleControlRequest returns on: it has no nested
\* request object, or its subtype is not hook_callback, or its callback id
\* is not in the registration table (DOMAIN of the table is empty when no
\* hook was registered and the table is nil)
Unroutable(line) ==
    /\ line.type = "control_request"
    /\ \/ ~line.hasReq
       \/ line.subtype # "hook_callback"
       \/ line.cb \notin DOMAIN cfg.hookCallbacks

\* the requests for which a hook was called or a default response prepared
Answerable == {hookLog[j].line.n : j \in {i \in 1..Len(hookLog) :
                                     hookLog[i].how \in {"start", "default"}}}

\* C30: a control_request without a request object, with a subtype other
\* than hook_callback, or with a callback id that is not registered (or with
\* no table at all) calls no hook and writes nothing to the transport, and
\* the pump goes on to the next line: the step that takes it leaves the pump
\* at its receive with no hook started and nothing sent or forwarded, and
\* no control_response ever carries its request id.
C30_UnroutableControlRequestIgnored ==
    /\ [][PumpTakes /\ Unroutable(Head(st_messages.buf))
            => /\ pumpPc' = "recv"
               /\ sendLog' = sendLog
               /\ messages' = messages
               /\ \A j \in 1..Len(hookLog') :
                     j > Len(hookLog) => hookLog'[j].how = "return"]_vars
    /\ [](\A i \in 1..Len(sendLog) :
             sendLog[i].frame.type = "control_response"
                => sendLog[i].frame.request_id \in Answerable)

\* a request for a callback id that is not registered was passed over, and
\* the pump then took the next request and called its hook
C30_Witness ==
    /\ Len(hookLog) >= 2
    /\ hookLog[1].how = "return"
    /\ hookLog[1].line.cb = 9
    /\ hookLog[2].how = "start"
    /\ hookLog[2].line.n # hookLog[1].line.n
    /\ ResponsesTo(hookLog[1].line.n) = {}

\* the pump holds a decoded message and the outbound channel has no room
PumpAtFullChannel == pumpPc = "forward" /\ ChanFull(messages, OutChanCap)

\* C31: when the outbound channel is full the pump drops the message instead
\* of blocking, so it can always go on to the next line of the transport's
\* channel, whether the consumer reads or not: the pump holding a message is
\* never without a step.
C31_PumpNeverBlocks == pumpPc = "forward" => ENABLED PumpForward

\* what the code does: `c.messages <- msg` waits for room. While the channel
\* is full the pump stays where it is with the message in hand, takes no
\* line and answers no hook callback, and nothing it decoded is lost
PumpWaitsForRoom ==
    /\ [](taken = Forwarded \o InHand)
    /\ [][PumpAtFullChannel /\ ChanFull(messages', OutChanCap)
            => /\ pumpPc' = "forward"
               /\ pumpCur' = pumpCur
               /\ taken' = taken
               /\ hookLog' = hookLog
               /\ Len(st_messages'.buf) >= Len(st_messages.buf)]_vars

\* the consumer never read, the pump waits on the full channel, and a hook
\* callback behind it in the transport's channel stays without an answer
HookCallbackStuckBehindFullChannel ==
    /\ PumpAtFullChannel
    /\ received = <<>>
    /\ st_messages.buf # <<>>
    /\ Head(st_messages.buf).type = "control_request"
    /\ ResponsesTo(Head(st_messages.buf).n) = {}

\* a call of Client.Close, or of Close on the transport, is under way
Closing == mu = "Close" \/ callerPc = TransportClosing

\* C32: Client.Close and SubprocessTransport.Close always return, with the
\* subprocess killed, whatever else is going on, a Send blocked in its write
\* to a pipe the peer does not read included.
C32_CloseAlwaysReturns ==
    /\ (mu = "Close") ~> (mu = "free" /\ st_cmd # "running")
    /\ (callerPc = TransportClosing) ~> (callerPc = NoCall /\ st_cmd # "running")

\* what the code does: Close waits for st.mu, which a Send keeps (RLock) for
\* the whole of its Write.  A Close that returned found no Send writing and
\* left no running subprocess; while a Send is writing to a running peer no
\* Close gets through
CloseWaitsForSend ==
    /\ [][(Closing /\ ~Closing') => (writing = {} /\ st_cmd' # "running")]_vars
    /\ [][(writing # {} /\ st_cmd = "running" /\ writing' = writing)
             => (Closing => Closing') /\ st_cmd' \in {"running", "exited"}]_vars

\* Close was called while a Send was writing to a running peer
CloseBehindBlockedSend ==
    /\ mu = "Close"
    /\ writing # {}
    /\ st_cmd = "running"

\* C33: whatever Connect and Close calls are made on one client, at most one
\* pump goroutine runs for it at a time and every outbound channel is closed
\* at most once; a Connect on a client that is connected starts no pump and
\* leaves the outbound channel as it is.
C33_OnePumpPerClient ==
    /\ [](Cardinality(RunningPumps) <= 1)
    /\ [](\A c \in 1..Len(sessions.chans) : sessions.chans[c].closes <= 1)
    /\ [][sessions.conn
            => /\ Len(sessions'.pumps) = Len(sessions.pumps)
               /\ Len(sessions'.chans) = Len(sessions.chans)]_vars

\* what the code does: every Connect that succeeds makes a channel and
\* starts a pump, there is no check of c.connected; each pump closes the
\* channel it started with, at most once, but sends to the latest one
EveryConnectStartsAPump ==
    /\ [](Len(sessions.pumps) = Len(sessions.chans))
    /\ [](\A i \in 1..Len(sessions.pumps) : sessions.pumps[i].own = i)
    /\ [](SessionsPanicked
             \/ \A c \in 1..Len(sessions.chans) : sessions.chans[c].closes <= 1)
    /\ [][Len(sessions'.pumps) > Len(sessions.pumps)
            => /\ Len(sessions'.pumps) = Len(sessions.pumps) + 1
               /\ Len(sessions'.pumps) \in RunningPumps'
               /\ RunningPumps \subseteq RunningPumps']_vars

\* Connect was called on a connected client whose consumer holds the first
\* channel: two pumps run, and c.messages is another channel
TwoPumpsAfterSecondConnect ==
    /\ sessions.conn
    /\ sessions.held = 1
    /\ Len(sessions.chans) = 2
    /\ RunningPumps = {1, 2}

\* the first pump sent to the channel of the second Connect after the
\* second pump had closed it
PumpSendsOnClosedChannel ==
    /\ Len(sessions.pumps) = 2
    /\ sessions.pumps[1].pc = "panicked"
    /\ sessions.pumps[2].pc = "done"

\* a Send call got as far as st.stdin.Write in this step: its result is not
\* the ErrNotConnected of the ready check
Writes ==
    /\ Len(sendLog') = Len(sendLog) + 1
    /\ Last(sendLog').err # "ErrNotConnected"

\* C34: however Send and Close interleave on the subprocess transport,
\* nothing is written to stdin after Close has returned: a Send that starts
\* once the transport is closed returns ErrNotConnected without writing, and
\* Close closes stdin only when no Send is in its write.
C34_NoWriteAfterClose ==
    /\ [][Writes => st_ready /\ st_stdin = "open" /\ stdinCloses = 0]_vars
    /\ [][(Len(sendLog') = Len(sendLog) + 1 /\ ~st_ready)
            => Last(sendLog').err = "ErrNotConnected"]_vars
    /\ [][writing' \ writing # {} => st_ready /\ st_stdin = "open"]_vars
    /\ [][stdinCloses' > stdinCloses => writing = {} /\ writing' = {}]_vars

\* a Query was written, Close on the transport returned after it, and an
\* Interrupt made afterwards came back with ErrNotConnected
C34_Witness ==
    /\ Len(returns) = 4
    /\ returns[2] = [op |-> "Query", ctx |-> "live", err |-> "nil"]
    /\ returns[3].op = "Transport.Close"
    /\ returns[4] = [op |-> "Interrupt", ctx |-> "live",
                     err |-> "ErrNotConnected"]
    /\ Len(sendLog) = 2
    /\ stdinCloses = 1

\* the relay goroutine of the one-shot Query has been started and has not
\* returned
RelayRunning == relayPc \in {"msgs", "recv", "select", "close", "closeOut"}

\* C35: once the context given to the one-shot Query is cancelled, the relay
\* goroutine ends and the returned channel is closed, also when no further
\* frame arrives after the cancellation.
C35_CancelEndsRelay ==
    (ctxDone /\ RelayRunning) ~> (relayPc = "done" /\ out.closed)

\* the same for a Query on the default subprocess transport, whose process
\* os/exec kills when the context is cancelled
CancelEndsRelayOfSubprocess ==
    (ctxDone /\ RelayRunning /\ ~IsMock) ~> (relayPc = "done" /\ out.closed)

\* the context is cancelled while the relay waits for the next message of an
\* injected transport whose channel is open and empty
RelayWaitsAfterCancel ==
    /\ IsMock
    /\ ctxDone
    /\ relayPc = "recv"
    /\ messages.buf = <<>> /\ ~messages.closed
    /\ st_messages.buf = <<>> /\ ~st_messages.closed
    /\ pumpPc = "recv"

\* the pump's sendControlResponse calls Send in this step, and Send fails
PumpResponseFails ==
    /\ pumpPc = "respond"
    /\ Len(sendLog') = Len(sendLog) + 1
    /\ Last(sendLog').by = "pump"
    /\ Last(sendLog').err # "nil"

\* C36: when the write of a hook's control response fails, the failure is
\* not reported (no call returns it, nothing goes to the error channel or
\* to the consumer), the response is not sent again, and the pump goes on
\* with the next line.
C36_ResponseFailureSwallowed ==
    /\ [][PumpResponseFails
            => /\ pumpPc' = "recv"
               /\ returns' = returns
               /\ st_errors' = st_errors
               /\ messages' = messages
               /\ hookLog' = hookLog]_vars
    /\ [](\A i, j \in 1..Len(sendLog) :
             (/\ sendLog[i].by = "pump"
              /\ sendLog[j].by = "pump"
              /\ sendLog[i].frame.request_id = sendLog[j].frame.request_id)
                => i = j)

\* the response to a hook callback could not be written, and the pump has
\* since decoded the conversation frame that came after the request
C36_Witness ==
    /\ \E i \in 1..Len(sendLog), k \in 1..Len(taken) :
          /\ sendLog[i].by = "pump"
          /\ sendLog[i].err # "nil"
          /\ taken[k].n > sendLog[i].frame.request_id
    /\ pumpPc = "recv"

\* C37: whatever Connect and Close calls are made on one
\* SubprocessTransport, its message channel and its error channel are each
\* closed at most once, and nothing is sent on either after its close.
C37_ChannelsClosedOnce ==
    \A ch \in {readers.messages, readers.errors} :
        ch.closes <= 1 /\ ch.late = 0

\* what holds: a transport that started one process closes each channel at
\* most once and sends on neither afterwards, and every readMessages
\* goroutine that returns has closed both channels
OneStartClosesOnce ==
    /\ Len(readers.procs) <= 1 => C37_ChannelsClosedOnce
    /\ \A i \in 1..Len(readers.rds) :
          readers.rds[i].pc = "done"
             => readers.messages.closes > 0 /\ readers.errors.closes > 0

\* Connect, Close, Connect: the second reader sends a line on the message
\* channel the first reader has closed
SecondReaderSendsOnClosedChannel ==
    /\ Len(readers.procs) = 2
    /\ readers.rds[1].pc = "done"
    /\ readers.messages.late = 1

\* Connect, Close, Connect, Close: the error channel is closed by both
\* readers
ErrorsClosedTwice ==
    /\ Len(readers.procs) = 2
    /\ readers.errors.closes = 2
    /\ readers.messages.late = 0

\* C38: c.connected becomes true only in Connect and false only in Close or
\* in a Connect whose initialize failed.  The peer's exit and the pump's
\* return leave it true: Messages() then still returns c.messages, now
\* closed, and a Query with a live context does not stop at its connected
\* check but goes on to Send.
C38_ConnectedOnlyByConnectAndClose ==
    /\ [][/\ (~connected /\ connected')
               => (Returns("Connect") \/ mu' = "Connect")
          /\ (connected /\ ~connected')
               => \/ Returns("Close")
                  \/ Returns("Connect") /\ Last(returns').err # "nil"
          /\ (Returns("Query") /\ callerPc = NoCall)
               => (~connected \/ Last(returns').ctx = "cancelled")]_vars
    /\ []((connected /\ pumpPc = "done")
            => ClientMessages = messages /\ messages.closed)

\* the process has exited and the pump has returned; the client is still
\* connected, the consumer holds the closed channel, and a Query went as
\* far as the write to the dead process
C38_Witness ==
    /\ connected
    /\ pumpPc = "done"
    /\ st_cmd # "running"
    /\ consumerHas
    /\ ClientMessages.closed
    /\ \E i \in 1..Len(sendLog) :
          sendLog[i].by = "Query" /\ sendLog[i].err = "EPIPE"

\* the pump takes a line that is not a JSON object
PumpTakesMalformed ==
    /\ PumpTakes
    /\ Head(st_messages.buf).type = "malformed"

\* C39: a line that fails the top-level JSON decoding is skipped and also
\* reported on the transport's error channel (when that channel is open
\* and has room).
C39_DecodeFailureReported ==
    [][(/\ PumpTakesMalformed
        /\ ~st_errors.closed
        /\ ~ChanFull(st_errors, ErrChanCap))
          => /\ pumpPc' = "recv"
             /\ Len(st_errors'.buf) = Len(st_errors.buf) + 1]_vars

\* what holds: the line is skipped and the error channel stays as it is
DecodeFailureSkippedSilently ==
    [][PumpTakesMalformed
         => /\ pumpPc' = "recv"
            /\ st_errors' = st_errors
            /\ UNCHANGED <<messages, returns, sendLog>>]_vars

\* the pump is about to take a malformed line while the error channel is
\* open and empty
MalformedLineAtPump ==
    /\ pumpPc = "recv"
    /\ st_messages.buf # <<>>
    /\ Head(st_messages.buf).type = "malformed"
    /\ ~st_errors.closed
    /\ st_errors.buf = <<>>

\* where the id hook_<id> stands in the initialize payload: event, matcher
\* and position among the matcher's ids
PlacesInPayload(id) ==
    LET defs == hookDefs(cfg) IN
      {p \in (DOMAIN defs) \X (1..MaxRegistrations) \X (1..MaxRegistrations) :
          /\ p[2] <= Len(defs[p[1]])
          /\ p[3] <= Len(defs[p[1]][p[2]].hookCallbackIds)
          /\ defs[p[1]][p[2]].hookCallbackIds[p[3]] = id}

\* C40: the k-th hook registered on a config gets the id hook_(k-1) and the
\* earlier registrations keep theirs, so n registrations hold exactly
\* hook_0 .. hook_(n-1); each id maps to the callback (of the event)
\* registered with it; and each id stands exactly once in the hooks object
\* of the initialize request, under the event it was registered for, the
\* ids of one event in registration order.
C40_CallbackIDs ==
    /\ [][cfg' # cfg =>
            LET id == cfg.nextCallbackID IN
              /\ Cardinality(DOMAIN cfg.hookCallbacks) = id
              /\ cfg'.nextCallbackID = id + 1
              /\ DOMAIN cfg'.hookCallbacks = DOMAIN cfg.hookCallbacks \cup {id}
              /\ \A old \in DOMAIN cfg.hookCallbacks :
                    cfg'.hookCallbacks[old] = cfg.hookCallbacks[old]
              /\ \E event \in HookEvents :
                    /\ cfg'.hookCallbacks[id] = event
                    /\ Len(cfg'.hooks[event]) = Len(cfg.hooks[event]) + 1
                    /\ Last(cfg'.hooks[event]).callbackIDs = <<id>>]_vars
    /\ [](/\ DOMAIN cfg.hookCallbacks = 0..(cfg.nextCallbackID - 1)
          /\ \A id \in DOMAIN cfg.hookCallbacks :
                /\ Cardinality(PlacesInPayload(id)) = 1
                /\ \A p \in PlacesInPayload(id) : p[1] = cfg.hookCallbacks[id]
          /\ \A id1, id2 \in DOMAIN cfg.hookCallbacks :
                \A p \in PlacesInPayload(id1), q \in PlacesInPayload(id2) :
                   (p[1] = q[1] /\ id1 < id2) => p[2] < q[2])

\* three hooks, two of them for one event, were registered and the
\* initialize request carrying them was written
C40_Witness ==
    /\ cfg.nextCallbackID = 3
    /\ Len(cfg.hooks["PreToolUse"]) = 2
    /\ Len(cfg.hooks["Stop"]) = 1
    /\ cfg.hookCallbacks[1] = "Stop"
    /\ \E i \in 1..Len(sendLog) :
          /\ sendLog[i].frame.subtype = "initialize"
          /\ sendLog[i].err = "nil"

=============================================================================
